---------------------------- MODULE UpkeepProofs ----------------------------
(***************************************************************************)
(* Proofs about the life of an account's rows, for every scenario: what the   *)
(* log still knows of a verdict, what an import takes back, what the stored    *)
(* aggregates claim, and what the exported archive shows.                      *)
(***************************************************************************)
EXTENDS Upkeep, WellFoundedInduction, FiniteSetTheorems, TLAPS

-----------------------------------------------------------------------------
(* The log of commands: what the purge forgets and an import brings back.     *)

\* The first verdict of a command is older than the horizon.
Past(c) == judged[c].applied < day - HorizonDays

\* Every verdict of L is the first one of its command, or that one is past.
Recalls(L) == \A c \in DOMAIN L : c \in DOMAIN judged /\ (L[c] = judged[c] \/ Past(c))

\* What the log and the export know of the verdicts: the log may have forgotten
\* a command, or have got a second verdict for it, only past the horizon.
Verdicts ==
  /\ day \in Int
  /\ \A c \in DOMAIN judged : judged[c].applied \in Int
  /\ DOMAIN backup = {"next", "rows", "history"}
  /\ Recalls(log)
  /\ Recalls(backup.history)
  /\ \A c \in DOMAIN judged \ DOMAIN log : Past(c)

\* The three fields of an export, and one of them changed.
LEMMA BackupFields ==
  ASSUME NEW b, DOMAIN b = {"next", "rows", "history"}, NEW n, NEW v
  PROVE  /\ DOMAIN [b EXCEPT !.next = n, !.history = v] = DOMAIN b
         /\ [b EXCEPT !.next = n, !.history = v].history = v
         /\ [b EXCEPT !.next = n, !.history = v].rows = b.rows
         /\ DOMAIN [b EXCEPT !.next = n, !.rows = v] = DOMAIN b
         /\ [b EXCEPT !.next = n, !.rows = v].history = b.history
         /\ [b EXCEPT !.next = n, !.rows = v].rows = v
         /\ DOMAIN [b EXCEPT !.rows = << >>, !.history = << >>] = DOMAIN b
         /\ [b EXCEPT !.rows = << >>, !.history = << >>].history = << >>
         /\ [b EXCEPT !.rows = << >>, !.history = << >>].rows = << >>
OBVIOUS

\* A step that judges nothing leaves the log what it was, or what it remembers,
\* or adds what an export remembers.
LEMMA QuietStep ==
  ASSUME Verdicts, judged' = judged, day' \in Int, day' >= day,
         DOMAIN backup' = {"next", "rows", "history"},
         backup'.history \in {backup.history, log, << >>},
         log' \in {log, Remembered(log, day), RestoreHistory(log, backup.history)}
  PROVE  Verdicts'
<1>1. HorizonDays \in Nat
  BY ArchiveAssumption
<1>2. ASSUME NEW c \in DOMAIN judged, Past(c) PROVE Past(c)'
  BY <1>1, <1>2 DEF Past, Verdicts
<1>3. Recalls(log)'
  <2>1. ASSUME NEW c \in DOMAIN log' PROVE c \in DOMAIN judged /\ (log'[c] = judged[c] \/ Past(c))
    <3>1. CASE log' = log
      BY <3>1 DEF Verdicts, Recalls
    <3>2. CASE log' = Remembered(log, day)
      BY <3>2 DEF Verdicts, Recalls, Remembered, Restrict
    <3>3. CASE log' = RestoreHistory(log, backup.history)
      BY <3>3 DEF Verdicts, Recalls, RestoreHistory
    <3>. QED BY <3>1, <3>2, <3>3
  <2>. QED BY <1>2, <2>1 DEF Recalls
<1>4. Recalls(backup.history)'
  <2>1. ASSUME NEW c \in DOMAIN backup'.history
        PROVE  c \in DOMAIN judged /\ (backup'.history[c] = judged[c] \/ Past(c))
    BY DEF Verdicts, Recalls
  <2>. QED BY <1>2, <2>1 DEF Recalls
<1>5. ASSUME NEW c \in DOMAIN judged', c \notin DOMAIN log' PROVE Past(c)
  <2>1. CASE c \notin DOMAIN log
    BY <2>1 DEF Verdicts
  <2>2. CASE c \in DOMAIN log
    <3>1. log' = Remembered(log, day)
      BY <1>5, <2>2 DEF RestoreHistory
    <3>2. log[c].applied < day - HorizonDays
      BY <1>5, <2>2, <3>1 DEF Remembered, Restrict
    <3>. QED BY <2>2, <3>2 DEF Verdicts, Recalls, Past
  <2>. QED BY <2>1, <2>2
<1>. QED BY <1>2, <1>3, <1>4, <1>5 DEF Verdicts

\* A command is judged: for the first time, or past the horizon again.
LEMMA JudgeStep ==
  ASSUME Verdicts, NEW c, c.id \notin DOMAIN log, NEW verdict, Judge(c, verdict),
         UNCHANGED <<day, backup>>
  PROVE  Verdicts'
<1>1. HorizonDays \in Nat
  BY ArchiveAssumption
<1>. DEFINE made == [result |-> verdict.result, applied |-> day]
<1>2. /\ DOMAIN log' = DOMAIN log \cup {c.id}
      /\ \A k \in DOMAIN log' : log'[k] = IF k = c.id THEN made ELSE log[k]
  BY DEF Judge
<1>3. /\ DOMAIN judged' = DOMAIN judged \cup {c.id}
      /\ \A k \in DOMAIN judged' : judged'[k] = IF k \in DOMAIN judged THEN judged[k] ELSE made
  BY DEF Judge
<1>4. made.applied = day
  OBVIOUS
<1>. HIDE DEF made
<1>5. ASSUME NEW k \in DOMAIN judged, Past(k) PROVE k \in DOMAIN judged' /\ Past(k)'
  BY <1>3, <1>5 DEF Past
<1>6. Recalls(log)'
  <2>1. ASSUME NEW k \in DOMAIN log' PROVE k \in DOMAIN judged' /\ (log'[k] = judged'[k] \/ Past(k)')
    <3>1. CASE k = c.id /\ k \in DOMAIN judged
      BY <1>5, <3>1 DEF Verdicts
    <3>2. CASE k = c.id /\ k \notin DOMAIN judged
      BY <1>2, <1>3, <3>2
    <3>3. CASE k # c.id
      <4>1. k \in DOMAIN log /\ log'[k] = log[k]
        BY <1>2, <3>3
      <4>. QED BY <1>3, <1>5, <4>1 DEF Verdicts, Recalls
    <3>. QED BY <3>1, <3>2, <3>3
  <2>. QED BY <2>1 DEF Recalls
<1>7. Recalls(backup.history)'
  <2>1. ASSUME NEW k \in DOMAIN backup'.history
        PROVE  k \in DOMAIN judged' /\ (backup'.history[k] = judged'[k] \/ Past(k)')
    BY <1>3, <1>5 DEF Verdicts, Recalls
  <2>. QED BY <2>1 DEF Recalls
<1>8. ASSUME NEW k \in DOMAIN judged' \ DOMAIN log' PROVE Past(k)'
  BY <1>2, <1>3, <1>5, <1>8 DEF Verdicts
<1>9. \A k \in DOMAIN judged' : judged'[k].applied \in Int
  BY <1>3, <1>4 DEF Verdicts
<1>. QED BY <1>6, <1>7, <1>8, <1>9 DEF Verdicts

\* Nothing is judged, logged or exported before the first command.
LEMMA VerdictsInit == Init => Verdicts
BY UpkeepAssumption DEF Init, Verdicts, Recalls

\* Every step keeps what the log and the export know of the verdicts.
LEMMA VerdictsStep == Verdicts /\ [Next]_vars => Verdicts'
<1>. SUFFICES ASSUME Verdicts, [Next]_vars PROVE Verdicts'
  OBVIOUS
<1>0. day \in Int /\ DOMAIN backup = {"next", "rows", "history"}
  BY DEF Verdicts
<1>1. ASSUME NEW d \in DOMAIN queue, Upload(d) PROVE Verdicts'
  <2>. DEFINE c == Scripts[d][queue[d] + 1]
  <2>1. UNCHANGED <<day, backup>>
    BY <1>1 DEF Upload
  <2>2. CASE c.id \in DOMAIN log
    <3>1. UNCHANGED <<log, judged>>
      BY <1>1, <2>2 DEF Upload
    <3>. QED BY <1>0, <2>1, <3>1, QuietStep
  <2>3. CASE c.id \notin DOMAIN log
    <3>1. PICK verdict \in {Handled(c)} : Judge(c, verdict)
      BY <1>1, <2>3 DEF Upload
    <3>. HIDE DEF c
    <3>. QED BY <2>1, <2>3, <3>1, JudgeStep
  <2>. QED BY <2>2, <2>3
<1>2. CASE NextDay
  BY <1>0, <1>2, QuietStep DEF NextDay
<1>3. CASE Expire
  BY <1>0, <1>3, QuietStep DEF Expire
<1>4. CASE StartPurge \/ PurgeRows
  BY <1>0, <1>4, QuietStep DEF StartPurge, PurgeRows
<1>5. CASE PurgeLog
  BY <1>0, <1>5, QuietStep DEF PurgeLog
<1>6. CASE BackupTable
  <2>1. /\ DOMAIN backup' = {"next", "rows", "history"}
        /\ backup'.history \in {backup.history, log}
    BY <1>0, <1>6, BackupFields DEF BackupTable
  <2>. QED BY <1>0, <1>6, <2>1, QuietStep DEF BackupTable
<1>7. ASSUME backup' = Filed
      PROVE  /\ DOMAIN backup' = {"next", "rows", "history"}
             /\ backup'.history \in {backup.history, << >>}
  BY <1>0, <1>7, BackupFields DEF Filed
<1>8. CASE DryRun
  BY <1>0, <1>7, <1>8, QuietStep DEF DryRun
<1>9. CASE Import
  <2>1. Restored(db, log, backup, plan.user).log \in {log, RestoreHistory(log, backup.history)}
    BY DEF Restored
  <2>. QED BY <1>0, <1>7, <1>9, <2>1, QuietStep DEF Import
<1>10. ASSUME NEW r \in {1, 2}, StartRecompute(r) \/ ReadSnapshot(r) \/ StoreAggregates(r)
       PROVE  Verdicts'
  BY <1>0, <1>10, QuietStep DEF StartRecompute, ReadSnapshot, StoreAggregates
<1>11. CASE UNCHANGED vars
  BY <1>0, <1>11, QuietStep DEF vars
<1>. QED BY <1>1, <1>2, <1>3, <1>4, <1>5, <1>6, <1>8, <1>9, <1>10, <1>11 DEF Next

\* Whatever the purge, exports and imports do to the log between the commands,
\* it forgets or repeats a verdict only past the offline horizon.
THEOREM VerdictsKept == Spec => []Verdicts
BY VerdictsInit, VerdictsStep, PTL DEF Spec

\* A command that was decided is not decided again within the horizon.
THEOREM DecidedOnce == Spec => OnceWithinHorizon
<1>. DEFINE Once == \A c \in DOMAIN judged :
                      c \in DOMAIN log' \ DOMAIN log =>
                        \/ judged[c].applied < day - HorizonDays
                        \/ log'[c] = judged[c]
<1>1. Verdicts => Once
  BY DEF Verdicts, Past
<1>2. Verdicts => [Once]_vars
  BY <1>1
<1>. QED BY <1>2, VerdictsKept, PTL DEF OnceWithinHorizon

-----------------------------------------------------------------------------
(* What an import does to the rows.                                           *)

\* A nonempty set of numbers has a least one.
LEMMA LeastNat ==
  ASSUME NEW T \in SUBSET Nat, T # {}
  PROVE  \E n \in T : \A m \in T : n <= m
<1>. DEFINE C == {1 .. n : n \in T}
<1>1. C \subseteq FiniteSubsetsOf(Nat)
  <2>1. ASSUME NEW U \in C PROVE U \in FiniteSubsetsOf(Nat)
    <3>1. PICK n \in T : U = 1 .. n
      OBVIOUS
    <3>2. IsFiniteSet(1 .. n) /\ 1 .. n \subseteq Nat
      <4>1. n \in Int /\ 1 \in Int
        BY <3>1
      <4>. QED BY <4>1, FS_Interval
    <3>. QED BY <3>1, <3>2 DEF FiniteSubsetsOf
  <2>. QED BY <2>1
<1>2. C # {}
  OBVIOUS
<1>3. PICK U \in C : \A V \in C : <<V, U>> \notin StrictSubsetOrdering(Nat)
  <2>. HIDE DEF C
  <2>. QED BY <1>1, <1>2, FS_StrictSubsetOrderingWellFounded, WFMin
<1>4. PICK n \in T : U = 1 .. n
  BY <1>3
<1>5. ASSUME NEW m \in T, m < n PROVE FALSE
  <2>1. (1 .. m) \in C /\ 1 .. m \subseteq 1 .. n
    BY <1>5
  <2>2. n \in 1 .. n /\ n \notin 1 .. m
    BY <1>5
  <2>3. U \in SUBSET Nat /\ (1 .. m) \in SUBSET Nat
    BY <1>4
  <2>4. <<1 .. m, U>> \in StrictSubsetOrdering(Nat)
    <3>1. 1 .. m \subseteq U /\ 1 .. m # U
      BY <1>4, <2>1, <2>2
    <3>. QED BY <2>3, <3>1 DEF StrictSubsetOrdering
  <2>. QED BY <1>3, <2>1, <2>4
<1>. QED BY <1>5

\* A set that holds 0, and the successor of each number it holds, holds them all.
LEMMA SetInduction ==
  ASSUME NEW T, 0 \in T, \A n \in Nat : n \in T => n + 1 \in T
  PROVE  \A n \in Nat : n \in T
<1>1. SUFFICES ASSUME Nat \ T # {} PROVE FALSE
  OBVIOUS
<1>2. PICK n \in Nat \ T : \A m \in Nat \ T : n <= m
  BY <1>1, LeastNat
<1>3. n - 1 \in Nat /\ n - 1 \notin Nat \ T /\ (n - 1) + 1 = n
  BY <1>2
<1>. QED BY <1>2, <1>3

\* The rows to are those of from, but for rows of the file: each under the
\* importing account, and over nothing of another account or as new.
Brought(from, to, rows, user) ==
  /\ DOMAIN from \subseteq DOMAIN to
  /\ \A k \in DOMAIN to :
       \/ k \in DOMAIN from /\ to[k] = from[k]
       \/ /\ k \in DOMAIN rows /\ to[k] = Imported(rows[k], user)
          /\ k \in DOMAIN from => ~Kept(from[k], Imported(rows[k], user), user)

\* What one import brings after another is what the file may bring.
LEMMA BroughtTwice ==
  ASSUME NEW a, NEW b, NEW c, NEW rows, NEW user,
         Brought(a, b, rows, user), Brought(b, c, rows, user)
  PROVE  Brought(a, c, rows, user)
<1>1. DOMAIN a \subseteq DOMAIN c
  BY DEF Brought
<1>2. ASSUME NEW k \in DOMAIN c
      PROVE \/ k \in DOMAIN a /\ c[k] = a[k]
            \/ /\ k \in DOMAIN rows /\ c[k] = Imported(rows[k], user)
               /\ k \in DOMAIN a => ~Kept(a[k], Imported(rows[k], user), user)
  <2>1. CASE k \in DOMAIN b /\ c[k] = b[k]
    BY <2>1 DEF Brought
  <2>2. CASE /\ k \in DOMAIN rows /\ c[k] = Imported(rows[k], user)
             /\ k \in DOMAIN b => ~Kept(b[k], Imported(rows[k], user), user)
    <3>1. CASE k \in DOMAIN a /\ b[k] = a[k]
      BY <2>2, <3>1 DEF Brought
    <3>2. CASE ~(k \in DOMAIN a /\ b[k] = a[k])
      BY <2>2, <3>2 DEF Brought
    <3>. QED BY <3>1, <3>2
  <2>. QED BY <2>1, <2>2 DEF Brought
<1>. QED BY <1>1, <1>2 DEF Brought

\* The state of an import.
Importing(s) == DOMAIN s = {"db", "ok", "conflicts"} /\ s.ok \in BOOLEAN

\* One row of the file.
LEMMA RowBrought ==
  ASSUME NEW s, Importing(s), NEW rows, NEW key \in DOMAIN rows, NEW before, NEW user,
         Brought(before, s.db, rows, user)
  PROVE  LET t == RestoreRow(s, before, key, Imported(rows[key], user), user)
         IN  Importing(t) /\ Brought(before, t.db, rows, user)
<1>. DEFINE row == Imported(rows[key], user)
            t == RestoreRow(s, before, key, row, user)
            Skipped == key \in DOMAIN before /\ Kept(before[key], row, user)
<1>1. CASE ~s.ok \/ Skipped \/ ~Storable(s.db, key, row)
  <2>1. t \in {s, [s EXCEPT !.conflicts = @ \cup {key}], [s EXCEPT !.ok = FALSE]}
    <3>. HIDE DEF row
    <3>. QED BY <1>1 DEF RestoreRow, Importing
  <2>2. Importing(t) /\ t.db = s.db
    <3>. HIDE DEF t
    <3>. QED BY <2>1 DEF Importing
  <2>. QED BY <2>2 DEF row
<1>2. CASE s.ok /\ ~Skipped /\ Storable(s.db, key, row)
  <2>1. t = [s EXCEPT !.db = Put(@, key, row),
               !.conflicts = IF key \in DOMAIN before THEN @ \cup {key} ELSE @]
    <3>. HIDE DEF row
    <3>. QED BY <1>2 DEF RestoreRow, Importing
  <2>2. Importing(t) /\ t.db = Put(s.db, key, row)
    <3>. HIDE DEF t, row
    <3>. QED BY <2>1 DEF Importing
  <2>3. Brought(before, Put(s.db, key, row), rows, user)
    <3>. HIDE DEF t
    <3>1. /\ DOMAIN Put(s.db, key, row) = DOMAIN s.db \cup {key}
          /\ \A k \in DOMAIN s.db \cup {key} :
               Put(s.db, key, row)[k] = IF k = key THEN row ELSE s.db[k]
      BY DEF Put
    <3>2. key \in DOMAIN before => ~Kept(before[key], row, user)
      BY <1>2
    <3>. QED BY <3>1, <3>2 DEF Brought
  <2>. QED BY <2>2, <2>3
<1>. QED BY <1>1, <1>2 DEF Importing

\* The next row is one of those left.
LEMMA NextLeft ==
  ASSUME NEW rows, NEW left, left # {}
  PROVE  NextRow(rows, left) \in left
<1>. DEFINE ready == {key \in left : Table(key) = "nodes" => rows[key].parent \notin left}
<1>1. \E key \in left : ready = {} \/ key \in ready
  <2>1. CASE ready = {}
    BY <2>1
  <2>2. CASE ready # {}
    <3>1. PICK key : key \in ready
      BY <2>2
    <3>. QED BY <3>1
  <2>. QED BY <2>1, <2>2
<1>2. NextRow(rows, left) = CHOOSE key \in left : ready = {} \/ key \in ready
  BY DEF NextRow
<1>. HIDE DEF ready
<1>. QED BY <1>1, <1>2

\* What is true at the start and stays true to the end is true at the end.
LEMMA Reached ==
  ASSUME NEW T, NEW N \in Nat, 0 \in T, \A n \in Nat : n < N /\ n \in T => n + 1 \in T
  PROVE  N \in T
<1>. DEFINE U == {n \in Nat : n <= N => n \in T}
<1>1. 0 \in U
  OBVIOUS
<1>2. ASSUME NEW n \in Nat, n \in U PROVE n + 1 \in U
  BY <1>2
<1>. HIDE DEF U
<1>3. N \in U
  BY <1>1, <1>2, SetInduction
<1>. QED BY <1>3 DEF U

\* The loop over the rows of a table.
LEMMA TableLoop ==
  ASSUME NEW s, NEW rows, IsFiniteSet(DOMAIN rows), NEW user
  PROVE  \E loop :
           /\ loop[0] = [left |-> DOMAIN rows, state |-> s]
           /\ \A n \in Nat : n < Cardinality(DOMAIN rows) =>
                loop[n + 1] = RestoreRound(rows, s.db, user, loop[n])
           /\ RestoreTable(s, rows, user) = loop[Cardinality(DOMAIN rows)].state
<1>. DEFINE N == Cardinality(DOMAIN rows)
            start == [left |-> DOMAIN rows, state |-> s]
            Eq(f, n) == f = [i \in 0 .. n |-> IF i = 0 THEN start
                               ELSE RestoreRound(rows, s.db, user, f[i - 1])]
<1>1. N \in Nat
  BY FS_CardinalityType
<1>2. \E f : Eq(f, N)
  <2>. DEFINE T == {n \in Nat : \E f : Eq(f, n)}
  <2>1. 0 \in T
    <3>1. Eq([i \in 0 .. 0 |-> start], 0)
      OBVIOUS
    <3>. HIDE DEF Eq
    <3>. QED BY <3>1
  <2>2. ASSUME NEW n \in Nat, n \in T PROVE n + 1 \in T
    <3>1. PICK f : Eq(f, n)
      BY <2>2
    <3>. HIDE DEF start
    <3>. DEFINE g == [i \in 0 .. (n + 1) |-> IF i = 0 THEN start
                         ELSE RestoreRound(rows, s.db, user, f[i - 1])]
    <3>2. ASSUME NEW i \in 0 .. n PROVE g[i] = f[i]
      BY <3>1
    <3>3. ASSUME NEW i \in 0 .. (n + 1), i # 0 PROVE g[i - 1] = f[i - 1]
      <4>1. i - 1 \in 0 .. n
        BY <3>3
      <4>. HIDE DEF g
      <4>. QED BY <3>2, <4>1
    <3>4. Eq(g, n + 1)
      <4>1. \A i \in 0 .. (n + 1) :
              g[i] = IF i = 0 THEN start ELSE RestoreRound(rows, s.db, user, g[i - 1])
        BY <3>3
      <4>2. g = [i \in 0 .. (n + 1) |-> g[i]]
        OBVIOUS
      <4>. HIDE DEF g
      <4>. QED BY <4>1, <4>2
    <3>. HIDE DEF g, Eq
    <3>. QED BY <3>4
  <2>. HIDE DEF T
  <2>3. \A n \in Nat : n \in T
    BY <2>1, <2>2, SetInduction
  <2>. QED BY <1>1, <2>3 DEF T
<1>. DEFINE loop == CHOOSE f : Eq(f, N)
<1>3. Eq(loop, N)
  <2>. HIDE DEF Eq
  <2>. QED BY <1>2
<1>4. RestoreTable(s, rows, user) = loop[N].state
  BY DEF RestoreTable
<1>. HIDE DEF loop
<1>5. loop[0] = start
  BY <1>1, <1>3
<1>6. ASSUME NEW n \in Nat, n < N PROVE loop[n + 1] = RestoreRound(rows, s.db, user, loop[n])
  <2>1. n + 1 \in 0 .. N /\ n + 1 # 0 /\ (n + 1) - 1 = n
    BY <1>1, <1>6
  <2>. HIDE DEF start, N
  <2>. QED BY <1>3, <2>1
<1>. QED BY <1>4, <1>5, <1>6

\* The rows of a table.
LEMMA TableBrought ==
  ASSUME NEW s, Importing(s), NEW rows, IsFiniteSet(DOMAIN rows), NEW user
  PROVE  LET t == RestoreTable(s, rows, user)
         IN  Importing(t) /\ Brought(s.db, t.db, rows, user)
<1>. DEFINE N == Cardinality(DOMAIN rows)
            Going(l) == /\ l.left \subseteq DOMAIN rows
                        /\ Importing(l.state) /\ Brought(s.db, l.state.db, rows, user)
<1>1. N \in Nat
  BY FS_CardinalityType
<1>2. PICK loop :
        /\ loop[0] = [left |-> DOMAIN rows, state |-> s]
        /\ \A n \in Nat : n < N => loop[n + 1] = RestoreRound(rows, s.db, user, loop[n])
        /\ RestoreTable(s, rows, user) = loop[N].state
  BY TableLoop
<1>3. Going(loop[0])
  <2>1. Brought(s.db, s.db, rows, user)
    BY DEF Brought
  <2>. QED BY <1>2, <2>1
<1>4. ASSUME NEW l, Going(l) PROVE Going(RestoreRound(rows, s.db, user, l))
  <2>1. CASE l.left = {}
    BY <1>4, <2>1 DEF RestoreRound
  <2>2. CASE l.left # {}
    <3>. DEFINE key == NextRow(rows, l.left)
                row == Imported(rows[key], user)
    <3>1. key \in l.left /\ key \in DOMAIN rows
      BY <1>4, <2>2, NextLeft
    <3>2. RestoreRound(rows, s.db, user, l) =
            [left |-> l.left \ {key}, state |-> RestoreRow(l.state, s.db, key, row, user)]
      BY <2>2 DEF RestoreRound
    <3>. HIDE DEF key
    <3>3. LET t == RestoreRow(l.state, s.db, key, row, user)
          IN  Importing(t) /\ Brought(s.db, t.db, rows, user)
      BY <1>4, <3>1, RowBrought
    <3>. HIDE DEF row
    <3>. QED BY <1>4, <3>2, <3>3
  <2>. QED BY <2>1, <2>2
<1>5. Going(loop[N])
  <2>. DEFINE T == {n \in Nat : Going(loop[n])}
  <2>. HIDE DEF Going
  <2>1. 0 \in T
    BY <1>3
  <2>2. ASSUME NEW n \in Nat, n < N /\ n \in T PROVE n + 1 \in T
    BY <1>2, <1>4, <2>2
  <2>. HIDE DEF T, N
  <2>3. N \in T
    BY <1>1, <2>1, <2>2, Reached
  <2>. QED BY <2>3 DEF T
<1>. HIDE DEF N
<1>. QED BY <1>2, <1>5

\* One table of the file.
LEMMA TableOfFile ==
  ASSUME NEW s, Importing(s), NEW rows, IsFiniteSet(DOMAIN rows), NEW user, NEW table
  PROVE  LET t == RestoreTable(s, Restrict(rows, RowsOf(rows, table)), user)
         IN  Importing(t) /\ Brought(s.db, t.db, rows, user)
<1>. DEFINE some == Restrict(rows, RowsOf(rows, table))
            t == RestoreTable(s, some, user)
<1>1. /\ DOMAIN some = RowsOf(rows, table)
      /\ \A k \in DOMAIN some : some[k] = rows[k]
      /\ DOMAIN some \in SUBSET DOMAIN rows
  BY DEF Restrict, RowsOf
<1>. HIDE DEF some
<1>2. IsFiniteSet(DOMAIN some)
  BY <1>1, FS_Subset
<1>3. Importing(t) /\ Brought(s.db, t.db, some, user)
  BY <1>2, TableBrought
<1>. HIDE DEF t
<1>4. Brought(s.db, t.db, rows, user)
  BY <1>1, <1>3 DEF Brought
<1>. QED BY <1>3, <1>4 DEF t, some

\* The loop over the tables.
LEMMA TablesLoop ==
  ASSUME NEW from, NEW rows, NEW user
  PROVE  \E after :
           /\ after[0] = [db |-> from, ok |-> TRUE, conflicts |-> {}]
           /\ \A n \in Nat : n < Len(RestoreOrder) =>
                after[n + 1] =
                  RestoreTable(after[n], Restrict(rows, RowsOf(rows, RestoreOrder[n + 1])), user)
           /\ RestoreRows(from, rows, user) = RestoreSettings(after[Len(RestoreOrder)], rows, user)
<1>. DEFINE N == Len(RestoreOrder)
            start == [db |-> from, ok |-> TRUE, conflicts |-> {}]
            table(s, n) == RestoreTable(s, Restrict(rows, RowsOf(rows, RestoreOrder[n])), user)
            Eq(f, n) == f = [i \in 0 .. n |-> IF i = 0 THEN start ELSE table(f[i - 1], i)]
<1>1. N \in Nat
  BY DEF RestoreOrder
<1>2. \E f : Eq(f, N)
  <2>. DEFINE T == {n \in Nat : \E f : Eq(f, n)}
  <2>. HIDE DEF table, start
  <2>1. 0 \in T
    <3>1. Eq([i \in 0 .. 0 |-> start], 0)
      OBVIOUS
    <3>. HIDE DEF Eq
    <3>. QED BY <3>1
  <2>2. ASSUME NEW n \in Nat, n \in T PROVE n + 1 \in T
    <3>1. PICK f : Eq(f, n)
      BY <2>2
    <3>. DEFINE g == [i \in 0 .. (n + 1) |-> IF i = 0 THEN start ELSE table(f[i - 1], i)]
    <3>2. ASSUME NEW i \in 0 .. n PROVE g[i] = f[i]
      BY <3>1
    <3>3. ASSUME NEW i \in 0 .. (n + 1), i # 0 PROVE g[i - 1] = f[i - 1]
      <4>1. i - 1 \in 0 .. n
        BY <3>3
      <4>. HIDE DEF g
      <4>. QED BY <3>2, <4>1
    <3>4. Eq(g, n + 1)
      <4>1. \A i \in 0 .. (n + 1) : g[i] = IF i = 0 THEN start ELSE table(g[i - 1], i)
        BY <3>3
      <4>2. g = [i \in 0 .. (n + 1) |-> g[i]]
        OBVIOUS
      <4>. HIDE DEF g
      <4>. QED BY <4>1, <4>2
    <3>. HIDE DEF g, Eq
    <3>. QED BY <3>4
  <2>. HIDE DEF T
  <2>3. \A n \in Nat : n \in T
    BY <2>1, <2>2, SetInduction
  <2>. QED BY <1>1, <2>3 DEF T
<1>. DEFINE after == CHOOSE f : Eq(f, N)
<1>3. Eq(after, N)
  <2>. HIDE DEF Eq
  <2>. QED BY <1>2
<1>4. RestoreRows(from, rows, user) = RestoreSettings(after[N], rows, user)
  BY DEF RestoreRows
<1>. HIDE DEF after
<1>5. after[0] = start
  <2>. HIDE DEF table, start, N
  <2>. QED BY <1>1, <1>3
<1>6. ASSUME NEW n \in Nat, n < N PROVE after[n + 1] = table(after[n], n + 1)
  <2>1. n + 1 \in 0 .. N /\ n + 1 # 0 /\ (n + 1) - 1 = n
    BY <1>1, <1>6
  <2>. HIDE DEF table, start, N
  <2>. QED BY <1>3, <2>1
<1>. QED BY <1>4, <1>5, <1>6

\* The rows of the whole file but the settings, which are nobody's table.
LEMMA TablesBrought ==
  ASSUME NEW from, NEW rows, IsFiniteSet(DOMAIN rows), NEW user
  PROVE  \E t : /\ Importing(t) /\ Brought(from, t.db, rows, user)
                /\ RestoreRows(from, rows, user) = RestoreSettings(t, rows, user)
<1>. DEFINE N == Len(RestoreOrder)
            start == [db |-> from, ok |-> TRUE, conflicts |-> {}]
            table(s, n) == RestoreTable(s, Restrict(rows, RowsOf(rows, RestoreOrder[n])), user)
            Going(s) == Importing(s) /\ Brought(from, s.db, rows, user)
<1>1. N \in Nat
  BY DEF RestoreOrder
<1>2. PICK after : /\ after[0] = start
                   /\ \A n \in Nat : n < N => after[n + 1] = table(after[n], n + 1)
                   /\ RestoreRows(from, rows, user) = RestoreSettings(after[N], rows, user)
  BY TablesLoop
<1>3. Going(after[0])
  <2>1. Brought(from, from, rows, user)
    BY DEF Brought
  <2>2. Importing(start) /\ start.db = from
    BY DEF Importing
  <2>. HIDE DEF start, N, table
  <2>. QED BY <1>2, <2>1, <2>2
<1>4. ASSUME NEW s, Going(s), NEW n PROVE Going(table(s, n))
  <2>1. Importing(table(s, n)) /\ Brought(s.db, table(s, n).db, rows, user)
    BY <1>4, TableOfFile
  <2>. HIDE DEF table
  <2>. QED BY <1>4, <2>1, BroughtTwice
<1>5. Going(after[N])
  <2>. DEFINE T == {n \in Nat : Going(after[n])}
  <2>. HIDE DEF Going, table, N, start
  <2>1. 0 \in T
    BY <1>3
  <2>2. ASSUME NEW n \in Nat, n < N /\ n \in T PROVE n + 1 \in T
    BY <1>2, <1>4, <2>2
  <2>. HIDE DEF T
  <2>3. N \in T
    BY <1>1, <2>1, <2>2, Reached
  <2>. QED BY <2>3 DEF T
<1>. HIDE DEF N, table, start, Going
<1>6. RestoreRows(from, rows, user) = RestoreSettings(after[N], rows, user)
  BY <1>2
<1>. QED BY <1>5, <1>6 DEF Going

\* An import brings what the file may bring and its account's settings, and all
\* of it or nothing: a row of another account, or one whose clock is not older
\* than the file's, stays as it is.
THEOREM ImportKeepsNewer ==
  ASSUME NEW from, NEW known, NEW file, IsFiniteSet(DOMAIN file.rows), NEW user
  PROVE  LET to == Restored(from, known, file, user).db
         IN  /\ DOMAIN from \subseteq DOMAIN to
             /\ DOMAIN to \subseteq DOMAIN from \cup DOMAIN file.rows \cup {<<"user_settings", user>>}
             /\ \A k \in DOMAIN to : Table(k) # "user_settings" =>
                  \/ k \in DOMAIN from /\ to[k] = from[k]
                  \/ /\ k \in DOMAIN file.rows /\ to[k] = Imported(file.rows[k], user)
                     /\ k \in DOMAIN from => ~Kept(from[k], Imported(file.rows[k], user), user)
<1>. DEFINE rows == file.rows
            mine == <<"user_settings", user>>
            Same(to) == /\ DOMAIN from \subseteq DOMAIN to
                        /\ DOMAIN to \subseteq DOMAIN from \cup DOMAIN rows \cup {mine}
                        /\ \A k \in DOMAIN to : Table(k) # "user_settings" =>
                             \/ k \in DOMAIN from /\ to[k] = from[k]
                             \/ /\ k \in DOMAIN rows /\ to[k] = Imported(rows[k], user)
                                /\ k \in DOMAIN from => ~Kept(from[k], Imported(rows[k], user), user)
<1>1. PICK t : /\ Importing(t) /\ Brought(from, t.db, rows, user)
               /\ RestoreRows(from, rows, user) = RestoreSettings(t, rows, user)
  BY TablesBrought
<1>2. Same(t.db)
  BY <1>1 DEF Brought
<1>3. Same(RestoreSettings(t, rows, user).db)
  <2>1. \E row : RestoreSettings(t, rows, user) \in
                   {t, [t EXCEPT !.conflicts = @ \cup {mine}], [t EXCEPT !.db = Put(@, mine, row)]}
    BY DEF RestoreSettings
  <2>2. PICK row : RestoreSettings(t, rows, user).db \in {t.db, Put(t.db, mine, row)}
    BY <1>1, <2>1 DEF Importing
  <2>3. Table(mine) = "user_settings"
    BY DEF Table
  <2>4. Same(Put(t.db, mine, row))
    <3>. HIDE DEF mine
    <3>1. /\ DOMAIN Put(t.db, mine, row) = DOMAIN t.db \cup {mine}
          /\ \A k \in DOMAIN t.db : Table(k) # "user_settings" => Put(t.db, mine, row)[k] = t.db[k]
      BY <2>3 DEF Put
    <3>. QED BY <1>2, <2>3, <3>1
  <2>. HIDE DEF Same, mine
  <2>. QED BY <1>2, <2>2, <2>4
<1>4. Same(from)
  OBVIOUS
<1>5. Restored(from, known, file, user).db \in {from, RestoreSettings(t, rows, user).db}
  BY <1>1 DEF Restored
<1>. HIDE DEF Same
<1>6. Same(Restored(from, known, file, user).db)
  BY <1>3, <1>4, <1>5
<1>. QED BY <1>6 DEF Same

-----------------------------------------------------------------------------
(* The aggregates.                                                            *)

\* A key of a row of computed_aggregates.
Agg(k) == Table(k) = "computed_aggregates"

\* The aggregates among the rows hold the facts of at most n commands, and no
\* command wrote them.
AggregatesOf(rows, n) ==
  \A k \in DOMAIN rows : Agg(k) =>
    /\ {"hlc", "of"} \subseteq DOMAIN rows[k]
    /\ rows[k].hlc = 0 /\ rows[k].of \in 0 .. n

\* A run holds a snapshot, of facts no newer than those there are.
RunOK(run) ==
  run.stage = "read" =>
    /\ IsFiniteSet(DOMAIN run.view) /\ run.of \in 0 .. writes
    /\ AggregatesOf(run.view, run.of)

\* Rows, export and snapshots hold facts that are there.
Facts ==
  /\ plan \in Plans /\ queue \in [DOMAIN plan.scripts -> Nat]
  /\ writes \in Nat
  /\ IsFiniteSet(DOMAIN db) /\ AggregatesOf(db, writes)
  /\ DOMAIN backup = {"next", "rows", "history"}
  /\ IsFiniteSet(DOMAIN backup.rows) /\ AggregatesOf(backup.rows, writes)
  /\ DOMAIN runs = {1, 2}
  /\ \A r \in {1, 2} : RunOK(runs[r])

\* No aggregate is made or changed.
Quiet(a, b) ==
  /\ IsFiniteSet(DOMAIN b)
  /\ \A k \in DOMAIN b : Agg(k) => k \in DOMAIN a /\ b[k] = a[k]

\* Aggregates are made and changed, but never for older facts.
Advanced(a, b, n) ==
  /\ IsFiniteSet(DOMAIN b) /\ AggregatesOf(b, n)
  /\ \A k \in DOMAIN a \cap DOMAIN b : Agg(k) => b[k].of >= a[k].of

\* Facts of n commands are facts of any more commands.
LEMMA MoreFacts ==
  ASSUME NEW rows, NEW n \in Nat, NEW m \in Nat, n <= m, AggregatesOf(rows, n)
  PROVE  AggregatesOf(rows, m)
<1>1. 0 .. n \subseteq 0 .. m
  OBVIOUS
<1>. QED BY <1>1 DEF AggregatesOf

\* Where no aggregate changes, every aggregate has advanced.
LEMMA QuietAdvances ==
  ASSUME NEW a, NEW b, NEW n \in Nat, NEW m \in Nat, n <= m, AggregatesOf(a, n), Quiet(a, b)
  PROVE  Advanced(a, b, m)
<1>1. AggregatesOf(a, m)
  BY MoreFacts
<1>2. AggregatesOf(b, m)
  BY <1>1 DEF AggregatesOf, Quiet
<1>3. ASSUME NEW k \in DOMAIN a \cap DOMAIN b, Agg(k) PROVE b[k].of >= a[k].of
  BY <1>1, <1>3 DEF AggregatesOf, Quiet
<1>. QED BY <1>2, <1>3 DEF Advanced, Quiet

\* A row put beside the others.
LEMMA PutQuiet ==
  ASSUME NEW a, IsFiniteSet(DOMAIN a), NEW key, ~Agg(key), NEW row
  PROVE  Quiet(a, Put(a, key, row))
<1>1. DOMAIN Put(a, key, row) = DOMAIN a \cup {key}
  BY DEF Put
<1>2. IsFiniteSet(DOMAIN a \cup {key})
  BY FS_AddElement
<1>. QED BY <1>1, <1>2 DEF Quiet, Put

\* What hangs below a node are nodes.
LEMMA BelowNodes ==
  ASSUME NEW rows, IsFiniteSet(DOMAIN rows), NEW root
  PROVE  Below(rows, root) \subseteq LiveRows(rows, "nodes")
<1>. DEFINE N == Cardinality(RowsOf(rows, "nodes"))
            more(B) == B \cup {k \in LiveRows(rows, "nodes") : rows[k].parent \in B}
            start == {root}
            Eq(f, n) == f = [i \in 0 .. n |-> IF i = 0 THEN start ELSE more(f[i - 1])]
<1>1. N \in Nat
  <2>1. RowsOf(rows, "nodes") \in SUBSET DOMAIN rows
    BY DEF RowsOf
  <2>. QED BY <2>1, FS_Subset, FS_CardinalityType
<1>2. \E f : Eq(f, N)
  <2>. DEFINE T == {n \in Nat : \E f : Eq(f, n)}
  <2>. HIDE DEF more, start
  <2>1. 0 \in T
    <3>1. Eq([i \in 0 .. 0 |-> start], 0)
      OBVIOUS
    <3>. HIDE DEF Eq
    <3>. QED BY <3>1
  <2>2. ASSUME NEW n \in Nat, n \in T PROVE n + 1 \in T
    <3>1. PICK f : Eq(f, n)
      BY <2>2
    <3>. DEFINE g == [i \in 0 .. (n + 1) |-> IF i = 0 THEN start ELSE more(f[i - 1])]
    <3>2. ASSUME NEW i \in 0 .. n PROVE g[i] = f[i]
      BY <3>1
    <3>3. ASSUME NEW i \in 0 .. (n + 1), i # 0 PROVE g[i - 1] = f[i - 1]
      <4>1. i - 1 \in 0 .. n
        BY <3>3
      <4>. HIDE DEF g
      <4>. QED BY <3>2, <4>1
    <3>4. Eq(g, n + 1)
      <4>1. \A i \in 0 .. (n + 1) : g[i] = IF i = 0 THEN start ELSE more(g[i - 1])
        BY <3>3
      <4>2. g = [i \in 0 .. (n + 1) |-> g[i]]
        OBVIOUS
      <4>. HIDE DEF g
      <4>. QED BY <4>1, <4>2
    <3>. HIDE DEF g, Eq
    <3>. QED BY <3>4
  <2>. HIDE DEF T
  <2>3. \A n \in Nat : n \in T
    BY <2>1, <2>2, SetInduction
  <2>. QED BY <1>1, <2>3 DEF T
<1>. DEFINE under == CHOOSE f : Eq(f, N)
<1>3. Eq(under, N)
  <2>. HIDE DEF Eq
  <2>. QED BY <1>2
<1>4. Below(rows, root) = under[N] \ {root}
  BY DEF Below
<1>. HIDE DEF under
<1>5. /\ under[0] = start
      /\ \A n \in 0 .. N : n # 0 => under[n] = more(under[n - 1])
  <2>. HIDE DEF more, start, N
  <2>. QED BY <1>1, <1>3
<1>. DEFINE T == {n \in Nat : n <= N => under[n] \ {root} \subseteq LiveRows(rows, "nodes")}
<1>6. 0 \in T
  BY <1>5
<1>7. ASSUME NEW n \in Nat, n \in T PROVE n + 1 \in T
  <2>1. SUFFICES ASSUME n + 1 <= N PROVE under[n + 1] \ {root} \subseteq LiveRows(rows, "nodes")
    OBVIOUS
  <2>2. n + 1 \in 0 .. N /\ n + 1 # 0 /\ (n + 1) - 1 = n /\ n <= N
    BY <1>1, <2>1
  <2>3. under[n + 1] = more(under[n])
    <3>. HIDE DEF more, start, N
    <3>. QED BY <1>5, <2>2
  <2>. HIDE DEF N
  <2>. QED BY <1>7, <2>2, <2>3
<1>8. N \in T
  <2>. HIDE DEF T
  <2>. QED BY <1>1, <1>6, <1>7, SetInduction
<1>. QED BY <1>1, <1>4, <1>8

\* No verb touches an aggregate.
LEMMA HandledQuiet ==
  ASSUME IsFiniteSet(DOMAIN db), NEW c, c.verb \in {"create", "delete", "soft_delete", "close"},
         ~Agg(c.key)
  PROVE  Quiet(db, Handled(c).db)
<1>1. Quiet(db, db)
  BY DEF Quiet
<1>2. Quiet(db, Create(c).db)
  <2>1. Create(c).db \in {db, Put(db, c.key, Born(c))}
    BY DEF Create, ConvergeOrOwn, AppliedAs, Rejected, Verdict
  <2>. QED BY <1>1, <2>1, PutQuiet
<1>3. ASSUME NEW row PROVE Quiet(db, [db EXCEPT ![c.key] = row])
  BY DEF Quiet
<1>4. Quiet(db, Delete(c).db)
  <2>1. \E row : Delete(c).db \in {db, [db EXCEPT ![c.key] = row]}
    BY DEF Delete, AppliedAs, Rejected, Verdict
  <2>. QED BY <1>1, <1>3, <2>1
<1>5. Quiet(db, CloseItem(c).db)
  <2>1. \E row : CloseItem(c).db \in {db, [db EXCEPT ![c.key] = row]}
    BY DEF CloseItem, AppliedAs, Rejected, Verdict
  <2>. QED BY <1>1, <1>3, <2>1
<1>6. Quiet(db, SoftDelete(c).db)
  <2>. DEFINE nodes == IF Live(db[c.key]) THEN Subtree(c.key) ELSE {}
              steps == {k \in RowsOf(db, "task_steps") : Live(db[k]) /\ db[k].task \in nodes}
              marked == [k \in DOMAIN db |-> IF k \in nodes \union steps
                           THEN [Stamped(db[k], c) EXCEPT !.deleted = day] ELSE db[k]]
  <2>1. SoftDelete(c).db \in {db, marked}
    BY DEF SoftDelete, AppliedAs, Rejected, Verdict
  <2>2. ASSUME NEW k \in nodes PROVE ~Agg(k)
    <3>1. k \in Subtree(c.key)
      OBVIOUS
    <3>2. CASE k = c.key
      BY <3>2
    <3>3. CASE k \in LiveRows(db, "nodes")
      BY <3>3 DEF LiveRows, RowsOf, Agg
    <3>4. Below(db, c.key) \subseteq LiveRows(db, "nodes")
      BY BelowNodes
    <3>. QED BY <3>1, <3>2, <3>3, <3>4 DEF Subtree
  <2>3. ASSUME NEW k \in steps PROVE ~Agg(k)
    BY DEF RowsOf, Agg
  <2>. HIDE DEF nodes, steps
  <2>4. Quiet(db, marked)
    <3>1. DOMAIN marked = DOMAIN db
      OBVIOUS
    <3>2. ASSUME NEW k \in DOMAIN marked, Agg(k) PROVE k \in DOMAIN db /\ marked[k] = db[k]
      BY <2>2, <2>3, <3>2
    <3>. HIDE DEF marked
    <3>. QED BY <3>1, <3>2 DEF Quiet
  <2>. HIDE DEF marked
  <2>. QED BY <1>1, <2>1, <2>4
<1>. QED BY <1>2, <1>4, <1>5, <1>6 DEF Handled

\* A device's command, with its verdict or without.
LEMMA UploadAdvances ==
  ASSUME Facts, NEW d \in DOMAIN queue, Upload(d)
  PROVE  /\ Quiet(db, db') /\ writes' \in Nat /\ writes <= writes'
         /\ queue' \in [DOMAIN plan.scripts -> Nat]
<1>. DEFINE c == Scripts[d][queue[d] + 1]
<1>1. c.verb \in {"create", "delete", "soft_delete", "close"} /\ ~Agg(c.key)
  <2>1. d \in DOMAIN plan.scripts /\ queue[d] \in Nat /\ plan \in Plans
    BY DEF Facts
  <2>2. queue[d] < Len(plan.scripts[d]) /\ Len(plan.scripts[d]) \in Nat
    BY <2>1, UpkeepAssumption DEF Upload, Scripts
  <2>3. queue[d] + 1 \in 1 .. Len(plan.scripts[d])
    BY <2>1, <2>2
  <2>. QED BY <2>1, <2>3, UpkeepAssumption DEF Scripts, Agg
<1>2. IsFiniteSet(DOMAIN db) /\ writes \in Nat
  BY DEF Facts
<1>3. CASE c.id \in DOMAIN log
  <2>1. UNCHANGED <<db, writes>>
    BY <1>3 DEF Upload
  <2>. QED BY <1>2, <2>1 DEF Quiet, Facts, Upload
<1>4. CASE c.id \notin DOMAIN log
  <2>1. PICK verdict \in {Handled(c)} : Judge(c, verdict)
    BY <1>4 DEF Upload
  <2>. HIDE DEF c
  <2>2. db' = Handled(c).db /\ (writes' = writes \/ writes' = writes + 1)
    BY <2>1 DEF Judge
  <2>3. Quiet(db, db')
    BY <1>1, <1>2, <2>2, HandledQuiet
  <2>. QED BY <1>2, <2>2, <2>3 DEF Facts, Upload
<1>5. queue' \in [DOMAIN plan.scripts -> Nat]
  <2>1. \E answered \in BOOLEAN : queue' = [queue EXCEPT ![d] = IF answered THEN @ + 1 ELSE @]
    BY DEF Upload
  <2>2. queue \in [DOMAIN plan.scripts -> Nat]
    BY DEF Facts
  <2>. QED BY <2>1, <2>2
<1>. QED BY <1>3, <1>4, <1>5

\* Rows expire, go, or get the warning of an import.
LEMMA JobsQuiet ==
  ASSUME Facts, Expire \/ PurgeRows \/ DryRun
  PROVE  Quiet(db, db')
<1>1. IsFiniteSet(DOMAIN db)
  BY DEF Facts
<1>2. Quiet(db, db)
  BY <1>1 DEF Quiet
<1>3. CASE Expire
  <2>1. ASSUME NEW k \in Expirable(db, day) PROVE ~Agg(k)
    BY DEF Expirable, RowsOf, Agg
  <2>2. db' = Expired(db, day)
    BY <1>3 DEF Expire
  <2>. QED BY <1>1, <2>1, <2>2 DEF Expired, Quiet
<1>4. CASE PurgeRows
  <2>1. db' \in {db, Without(db, Reclaiming)}
    BY <1>4 DEF PurgeRows
  <2>2. Quiet(db, Without(db, Reclaiming))
    <3>. DEFINE left == Without(db, Reclaiming)
    <3>1. DOMAIN left \in SUBSET DOMAIN db /\ \A k \in DOMAIN left : left[k] = db[k]
      BY DEF Without, Restrict
    <3>2. IsFiniteSet(DOMAIN left)
      BY <1>1, <3>1, FS_Subset
    <3>. HIDE DEF left
    <3>. QED BY <3>1, <3>2 DEF Quiet, left
  <2>. QED BY <1>2, <2>1, <2>2
<1>5. CASE DryRun
  <2>1. \E row : db' \in {db, Put(db, Warning, row)}
    BY <1>5 DEF DryRun, WithWarning
  <2>2. ~Agg(Warning)
    BY DEF Agg, Table, Warning
  <2>. QED BY <1>1, <1>2, <2>1, <2>2, PutQuiet
<1>. QED BY <1>3, <1>4, <1>5

\* An import brings aggregates back that are gone, and no other.
LEMMA ImportAdvances ==
  ASSUME Facts, Import
  PROVE  Advanced(db, db', writes)
<1>. DEFINE to == Restored(db, log, backup, plan.user).db
<1>1. /\ IsFiniteSet(DOMAIN db) /\ AggregatesOf(db, writes) /\ writes \in Nat
      /\ IsFiniteSet(DOMAIN backup.rows) /\ AggregatesOf(backup.rows, writes)
  BY DEF Facts
<1>2. /\ DOMAIN to \subseteq DOMAIN db \cup DOMAIN backup.rows \cup {<<"user_settings", plan.user>>}
      /\ \A k \in DOMAIN to : Table(k) # "user_settings" =>
           \/ k \in DOMAIN db /\ to[k] = db[k]
           \/ /\ k \in DOMAIN backup.rows /\ to[k] = Imported(backup.rows[k], plan.user)
              /\ k \in DOMAIN db => ~Kept(db[k], Imported(backup.rows[k], plan.user), plan.user)
  BY <1>1, ImportKeepsNewer
<1>3. \E row : db' \in {to, Put(to, Warning, row)}
  BY DEF Import, WithWarning
<1>. HIDE DEF to
<1>4. IsFiniteSet(DOMAIN to)
  <2>1. IsFiniteSet(DOMAIN db \cup DOMAIN backup.rows)
    BY <1>1, FS_Union
  <2>2. IsFiniteSet(DOMAIN db \cup DOMAIN backup.rows \cup {<<"user_settings", plan.user>>})
    BY <2>1, FS_AddElement
  <2>. QED BY <1>2, <2>2, FS_Subset
<1>5. ASSUME NEW k \in DOMAIN to, Agg(k)
      PROVE  /\ {"hlc", "of"} \subseteq DOMAIN to[k]
             /\ to[k].hlc = 0 /\ to[k].of \in 0 .. writes
             /\ k \in DOMAIN db => to[k] = db[k]
  <2>1. CASE k \in DOMAIN db /\ to[k] = db[k]
    BY <1>1, <1>5, <2>1 DEF AggregatesOf
  <2>2. CASE ~(k \in DOMAIN db /\ to[k] = db[k])
    <3>1. /\ k \in DOMAIN backup.rows /\ to[k] = Imported(backup.rows[k], plan.user)
          /\ k \in DOMAIN db => ~Kept(db[k], Imported(backup.rows[k], plan.user), plan.user)
      BY <1>2, <1>5, <2>2 DEF Agg
    <3>2. /\ DOMAIN backup.rows[k] = DOMAIN to[k]
          /\ to[k].hlc = backup.rows[k].hlc /\ to[k].of = backup.rows[k].of
      BY <1>1, <1>5, <3>1 DEF Imported, AggregatesOf
    <3>3. k \notin DOMAIN db
      BY <1>1, <1>5, <3>1, <3>2 DEF Kept, Outranks, AggregatesOf
    <3>. QED BY <1>1, <1>5, <3>1, <3>2, <3>3 DEF AggregatesOf
  <2>. QED BY <2>1, <2>2
<1>6. Advanced(db, to, writes)
  <2>1. ASSUME NEW k \in DOMAIN db \cap DOMAIN to, Agg(k) PROVE to[k].of >= db[k].of
    BY <1>1, <1>5, <2>1 DEF AggregatesOf
  <2>. QED BY <1>4, <1>5, <2>1 DEF Advanced, AggregatesOf
<1>7. ASSUME NEW row PROVE Advanced(db, Put(to, Warning, row), writes)
  <2>1. ~Agg(Warning)
    BY DEF Agg, Table, Warning
  <2>2. Quiet(to, Put(to, Warning, row))
    BY <1>4, <2>1, PutQuiet
  <2>. QED BY <1>6, <2>2 DEF Advanced, Quiet, AggregatesOf
<1>. QED BY <1>3, <1>6, <1>7

\* A run stores what it computed from its snapshot.
LEMMA StoreAdvances ==
  ASSUME Facts, NEW r \in {1, 2}, StoreAggregates(r)
  PROVE  Advanced(db, db', writes)
<1>. DEFINE run == runs[r]
            computed == Computed(run)
<1>1. /\ IsFiniteSet(DOMAIN db) /\ AggregatesOf(db, writes) /\ writes \in Nat
      /\ IsFiniteSet(DOMAIN run.view) /\ run.of \in 0 .. writes
      /\ AggregatesOf(run.view, run.of)
  BY DEF Facts, RunOK, StoreAggregates
<1>2. \/ db' = db
      \/ /\ db' = Upserted(run, computed)
         /\ ~\E k \in DOMAIN computed : Unserializable(run.view, k)
  BY DEF StoreAggregates
<1>3. IsFiniteSet(DOMAIN computed)
  <2>. DEFINE M == Measured(run.view)
              key == [m \in M |-> Aggregate(m[1], m[2])]
  <2>1. IsFiniteSet(M)
    <3>1. /\ LiveRows(run.view, "habits") \in SUBSET DOMAIN run.view
          /\ {n \in LiveRows(run.view, "nodes") : run.view[n].type = "project"} \in SUBSET DOMAIN run.view
      BY DEF LiveRows, RowsOf
    <3>2. /\ IsFiniteSet(LiveRows(run.view, "habits"))
          /\ IsFiniteSet({n \in LiveRows(run.view, "nodes") : run.view[n].type = "project"})
      BY <1>1, <3>1, FS_Subset
    <3>3. IsFiniteSet({"streak", "practice_hours", "tag_confirmation"}) /\ IsFiniteSet({"progress"})
      <4>1. /\ {"streak", "practice_hours"} = {"streak"} \cup {"practice_hours"}
            /\ {"streak", "practice_hours", "tag_confirmation"} =
                 {"streak", "practice_hours"} \cup {"tag_confirmation"}
        OBVIOUS
      <4>2. IsFiniteSet({"streak"}) /\ IsFiniteSet({"progress"})
        BY FS_Singleton
      <4>3. IsFiniteSet({"streak", "practice_hours"})
        BY <4>1, <4>2, FS_AddElement
      <4>4. IsFiniteSet({"streak", "practice_hours", "tag_confirmation"})
        BY <4>1, <4>3, FS_AddElement
      <4>. QED BY <4>2, <4>4
    <3>. QED BY <3>2, <3>3, FS_Product, FS_Union DEF Measured
  <2>2. DOMAIN computed = {Aggregate(m[1], m[2]) : m \in M}
    BY DEF Computed
  <2>. HIDE DEF M
  <2>3. key \in Surjection(M, {Aggregate(m[1], m[2]) : m \in M})
    BY DEF Surjection
  <2>. QED BY <2>1, <2>2, <2>3, FS_Surjection
<1>4. ASSUME NEW k \in DOMAIN computed
      PROVE  /\ {"hlc", "of"} \subseteq DOMAIN computed[k]
             /\ computed[k].hlc = 0 /\ computed[k].of = run.of
  BY DEF Computed
<1>. HIDE DEF computed
<1>5. CASE db' = db
  <2>1. Quiet(db, db)
    BY <1>1 DEF Quiet
  <2>. QED BY <1>1, <1>5, <2>1, QuietAdvances
<1>6. CASE /\ db' = Upserted(run, computed)
           /\ ~\E k \in DOMAIN computed : Unserializable(run.view, k)
  <2>. HIDE DEF run
  <2>1. /\ DOMAIN db' = DOMAIN db \cup DOMAIN computed
        /\ \A k \in DOMAIN db' : db'[k] = IF k \in DOMAIN computed /\ (k \in DOMAIN db => NotNewer(k, run))
                                          THEN computed[k] ELSE db[k]
    BY <1>6 DEF Upserted
  <2>2. IsFiniteSet(DOMAIN db')
    <3>1. IsFiniteSet(DOMAIN db \cup DOMAIN computed)
      BY <1>1, <1>3, FS_Union
    <3>. QED BY <2>1, <3>1
  <2>3. ASSUME NEW k \in DOMAIN db', Agg(k)
        PROVE  /\ {"hlc", "of"} \subseteq DOMAIN db'[k]
               /\ db'[k].hlc = 0 /\ db'[k].of \in 0 .. writes
               /\ k \in DOMAIN db => db'[k].of >= db[k].of
    <3>1. CASE k \in DOMAIN computed /\ (k \in DOMAIN db => NotNewer(k, run))
      <4>1. db'[k] = computed[k]
        BY <2>1, <3>1
      <4>2. k \in DOMAIN db => k \in DOMAIN run.view /\ run.view[k] = db[k]
        BY <1>6, <3>1 DEF Unserializable
      <4>3. k \in DOMAIN db => db[k].of \in 0 .. run.of
        BY <1>1, <2>3, <4>2 DEF AggregatesOf
      <4>. QED BY <1>1, <1>4, <3>1, <4>1, <4>3
    <3>2. CASE ~(k \in DOMAIN computed /\ (k \in DOMAIN db => NotNewer(k, run)))
      <4>1. k \in DOMAIN db /\ db'[k] = db[k]
        BY <2>1, <3>2
      <4>. QED BY <1>1, <2>3, <4>1 DEF AggregatesOf
    <3>. QED BY <3>1, <3>2
  <2>. QED BY <2>2, <2>3 DEF Advanced, AggregatesOf
<1>. QED BY <1>2, <1>5, <1>6

\* No step stores an aggregate of older facts over another.
LEMMA RowsAdvance ==
  ASSUME Facts, [Next]_vars
  PROVE  writes' \in Nat /\ writes <= writes' /\ Advanced(db, db', writes')
<1>1. writes \in Nat /\ IsFiniteSet(DOMAIN db) /\ AggregatesOf(db, writes)
  BY DEF Facts
<1>2. ASSUME UNCHANGED <<db, writes>>
      PROVE  writes' \in Nat /\ writes <= writes' /\ Advanced(db, db', writes')
  <2>1. Quiet(db, db)
    BY <1>1 DEF Quiet
  <2>. QED BY <1>1, <1>2, <2>1, QuietAdvances
<1>3. CASE \E d \in DOMAIN queue : Upload(d)
  BY <1>1, <1>3, UploadAdvances, QuietAdvances
<1>4. CASE Expire \/ PurgeRows \/ DryRun
  <2>1. writes' = writes
    BY <1>4 DEF Expire, PurgeRows, DryRun
  <2>. QED BY <1>1, <1>4, <2>1, JobsQuiet, QuietAdvances
<1>5. CASE Import
  <2>1. writes' = writes
    BY <1>5 DEF Import
  <2>. QED BY <1>1, <1>5, <2>1, ImportAdvances
<1>6. CASE \E r \in {1, 2} : StoreAggregates(r)
  <2>1. writes' = writes
    BY <1>6 DEF StoreAggregates
  <2>. QED BY <1>1, <1>6, <2>1, StoreAdvances
<1>7. CASE \/ NextDay \/ StartPurge \/ PurgeLog \/ BackupTable
           \/ \E r \in {1, 2} : StartRecompute(r) \/ ReadSnapshot(r)
           \/ UNCHANGED vars
  BY <1>2, <1>7 DEF NextDay, StartPurge, PurgeLog, BackupTable, StartRecompute, ReadSnapshot, vars
<1>. QED BY <1>3, <1>4, <1>5, <1>6, <1>7 DEF Next

\* What an export reads more.
LEMMA BackupAdvances ==
  ASSUME Facts, [Next]_vars
  PROVE  /\ DOMAIN backup' = {"next", "rows", "history"}
         /\ IsFiniteSet(DOMAIN backup'.rows) /\ AggregatesOf(backup'.rows, writes)
<1>1. /\ DOMAIN backup = {"next", "rows", "history"}
      /\ IsFiniteSet(DOMAIN db) /\ AggregatesOf(db, writes)
      /\ IsFiniteSet(DOMAIN backup.rows) /\ AggregatesOf(backup.rows, writes)
  BY DEF Facts
<1>2. CASE backup' = backup
  BY <1>1, <1>2
<1>3. CASE BackupTable
  <2>. DEFINE table == Registry[NextTable]
              read == ReadTable(db, table, plan.user)
              joined == Joined(read, backup.rows)
  <2>1. DOMAIN read \in SUBSET DOMAIN db /\ \A k \in DOMAIN read : read[k] = db[k]
    BY DEF ReadTable, Restrict, RowsOf
  <2>2. \/ backup' = [backup EXCEPT !.next = NextTable + 1, !.history = log]
        \/ backup' = [backup EXCEPT !.next = NextTable + 1, !.rows = joined]
    BY <1>3 DEF BackupTable
  <2>. HIDE DEF read, table
  <2>3. /\ DOMAIN joined = DOMAIN read \cup DOMAIN backup.rows
        /\ \A k \in DOMAIN joined : joined[k] = IF k \in DOMAIN read THEN read[k] ELSE backup.rows[k]
    BY DEF Joined
  <2>. HIDE DEF joined
  <2>4. IsFiniteSet(DOMAIN joined)
    <3>1. IsFiniteSet(DOMAIN read)
      BY <1>1, <2>1, FS_Subset
    <3>2. IsFiniteSet(DOMAIN read \cup DOMAIN backup.rows)
      BY <1>1, <3>1, FS_Union
    <3>. QED BY <2>3, <3>2
  <2>5. AggregatesOf(joined, writes)
    BY <1>1, <2>1, <2>3 DEF AggregatesOf
  <2>6. /\ DOMAIN backup' = {"next", "rows", "history"}
        /\ backup'.rows \in {backup.rows, joined}
    BY <1>1, <2>2, BackupFields
  <2>. QED BY <1>1, <2>4, <2>5, <2>6
<1>4. CASE backup' = Filed
  <2>1. /\ DOMAIN backup' = {"next", "rows", "history"}
        /\ backup'.rows \in {backup.rows, << >>}
    BY <1>1, <1>4, BackupFields DEF Filed
  <2>2. DOMAIN << >> = {} /\ IsFiniteSet({})
    BY FS_EmptySet
  <2>3. IsFiniteSet(DOMAIN << >>) /\ AggregatesOf(<< >>, writes)
    BY <2>2 DEF AggregatesOf
  <2>. QED BY <1>1, <2>1, <2>3
<1>5. backup' = backup \/ BackupTable \/ backup' = Filed
  BY DEF Next, vars, Upload, NextDay, Expire, StartPurge, PurgeRows, PurgeLog, DryRun, Import,
         StartRecompute, ReadSnapshot, StoreAggregates
<1>. QED BY <1>2, <1>3, <1>4, <1>5

\* What a run reads and forgets.
LEMMA RunsAdvance ==
  ASSUME Facts, [Next]_vars
  PROVE  DOMAIN runs' = {1, 2} /\ \A r \in {1, 2} : RunOK(runs'[r])
<1>1. /\ DOMAIN runs = {1, 2} /\ \A r \in {1, 2} : RunOK(runs[r])
      /\ IsFiniteSet(DOMAIN db) /\ AggregatesOf(db, writes) /\ writes \in Nat
  BY DEF Facts
<1>2. CASE runs' = runs
  BY <1>1, <1>2
<1>3. ASSUME NEW r \in {1, 2}, StartRecompute(r) \/ ReadSnapshot(r) \/ StoreAggregates(r)
      PROVE  DOMAIN runs' = {1, 2} /\ \A q \in {1, 2} : RunOK(runs'[q])
  <2>1. \/ runs' = [runs EXCEPT ![r] = [stage |-> "started", now |-> day]]
        \/ runs' = [runs EXCEPT ![r] = [stage |-> "read", now |-> @.now, view |-> db, of |-> writes]]
        \/ runs' = [runs EXCEPT ![r] = Idle]
    BY <1>3 DEF StartRecompute, ReadSnapshot, StoreAggregates
  <2>2. /\ RunOK([stage |-> "started", now |-> day])
        /\ RunOK([stage |-> "read", now |-> runs[r].now, view |-> db, of |-> writes])
        /\ RunOK(Idle)
    <3>1. writes \in 0 .. writes
      BY <1>1
    <3>. QED BY <1>1, <3>1 DEF RunOK, Idle
  <2>. QED BY <1>1, <2>1, <2>2
<1>4. runs' = runs \/ \E r \in {1, 2} : StartRecompute(r) \/ ReadSnapshot(r) \/ StoreAggregates(r)
  BY DEF Next, vars, Upload, NextDay, Expire, StartPurge, PurgeRows, PurgeLog, BackupTable, DryRun, Import
<1>. QED BY <1>2, <1>3, <1>4

\* There is no aggregate before the first recompute.
LEMMA FactsInit == Init => Facts
<1>. SUFFICES ASSUME Init PROVE Facts
  OBVIOUS
<1>1. plan \in Plans /\ db = plan.rows
  BY DEF Init
<1>2. IsFiniteSet(DOMAIN db) /\ \A k \in DOMAIN db : ~Agg(k)
  BY <1>1, UpkeepAssumption DEF Agg
<1>3. /\ backup = [next |-> 1, rows |-> << >>, history |-> << >>]
      /\ DOMAIN << >> = {} /\ IsFiniteSet({})
  BY FS_EmptySet DEF Init
<1>4. runs = [r \in {1, 2} |-> Idle] /\ writes = 0 /\ queue = [d \in DOMAIN plan.scripts |-> 0]
  BY DEF Init
<1>. QED BY <1>1, <1>2, <1>3, <1>4 DEF Facts, AggregatesOf, RunOK, Idle

\* Every step keeps the aggregates true, and advances them.
LEMMA FactsStep == Facts /\ [Next]_vars => Facts'
<1>. SUFFICES ASSUME Facts, [Next]_vars PROVE Facts'
  OBVIOUS
<1>1. writes \in Nat /\ plan \in Plans /\ queue \in [DOMAIN plan.scripts -> Nat]
  BY DEF Facts
<1>2. writes' \in Nat /\ writes <= writes' /\ Advanced(db, db', writes')
  BY RowsAdvance
<1>3. /\ DOMAIN backup' = {"next", "rows", "history"}
      /\ IsFiniteSet(DOMAIN backup'.rows) /\ AggregatesOf(backup'.rows, writes')
  BY <1>1, <1>2, BackupAdvances, MoreFacts
<1>4. DOMAIN runs' = {1, 2} /\ \A r \in {1, 2} : RunOK(runs'[r])
  BY RunsAdvance
<1>5. ASSUME NEW r \in {1, 2} PROVE RunOK(runs[r])'
  <2>1. 0 .. writes \subseteq 0 .. writes'
    BY <1>1, <1>2
  <2>. QED BY <1>4, <2>1 DEF RunOK
<1>6. plan' = plan /\ queue' \in [DOMAIN plan.scripts -> Nat]
  <2>1. plan' = plan
    BY DEF Next, vars, Upload, NextDay, Expire, StartPurge, PurgeRows, PurgeLog, BackupTable, DryRun,
           Import, StartRecompute, ReadSnapshot, StoreAggregates
  <2>2. CASE \E d \in DOMAIN queue : Upload(d)
    BY <2>1, <2>2, UploadAdvances
  <2>3. CASE ~\E d \in DOMAIN queue : Upload(d)
    <3>1. queue' = queue
      BY <2>3 DEF Next, vars, NextDay, Expire, StartPurge, PurgeRows, PurgeLog, BackupTable, DryRun,
                  Import, StartRecompute, ReadSnapshot, StoreAggregates
    <3>. QED BY <1>1, <2>1, <3>1
  <2>. QED BY <2>2, <2>3
<1>. QED BY <1>1, <1>2, <1>3, <1>4, <1>5, <1>6 DEF Facts, Advanced

\* The aggregates of the database, of an export and of a run's snapshot hold
\* facts that are there, at every moment between the jobs' transactions.
THEOREM FactsKept == Spec => []Facts
BY FactsInit, FactsStep, PTL DEF Spec

\* A stored aggregate is never replaced by one of older facts, also by an import.
THEOREM AggregatesAlwaysAdvance == Spec => AggregatesAdvance
<1>. DEFINE Advance == \A k \in RowsOf(db, "computed_aggregates") \cap DOMAIN db' :
                         db'[k].of >= db[k].of
<1>1. ASSUME Facts, [Next]_vars PROVE Advance
  BY <1>1, RowsAdvance DEF Advanced, RowsOf, Agg
<1>2. Facts /\ [Next]_vars => [Advance]_vars
  BY <1>1
<1>. QED BY <1>2, FactsKept, PTL DEF AggregatesAdvance, Spec

-----------------------------------------------------------------------------
(* What an export gives back.                                                 *)

\* A row of the account as the schema and the plan have it.
RowOK(k, row) ==
  /\ FitsSchema(k, row)
  /\ Table(k) = "nodes" => <<k, row.parent>> \in Parents(plan)
  /\ Agg(k) => k = Aggregate(row.subject, row.metric)

\* The rows of one account and no other: what they reference is among them, and
\* no two live ones share a natural key.
Exported(rows, user) ==
  \A k \in DOMAIN rows :
    /\ RowOK(k, rows[k]) /\ rows[k].user = user
    /\ References(k, rows[k]) \subseteq DOMAIN rows
    /\ \A other \in DOMAIN rows : ~Rival(rows, k, rows[k], other)

\* These rows of a file as an import stores them.
Copies(rows, keys, user) == [k \in keys |-> Imported(rows[k], user)]

\* An import that has stored these rows and met no obstacle.
Copied(s, rows, keys, user) ==
  Importing(s) /\ s.ok /\ s.db = Copies(rows, keys, user)

\* The owner, the origin and the stamps of a row are in no foreign key and but
\* for the owner in no natural key.
LEMMA KeyColumns ==
  /\ \A T \in DOMAIN ForeignKeys :
       DOMAIN ForeignKeys[T] \cap {"user", "source", "deleted", "updated", "hlc", "status", "resolved"} = {}
  /\ \A T \in DOMAIN UniqueColumns :
       UniqueColumns[T] \cap {"source", "deleted", "updated", "hlc", "status", "resolved"} = {}
BY DEF ForeignKeys, UniqueColumns

\* A restored row references what it did.
LEMMA ImportedReferences ==
  ASSUME NEW k, NEW row, FitsSchema(k, row), NEW user
  PROVE  References(k, Imported(row, user)) = References(k, row)
<1>1. CASE Table(k) \notin DOMAIN ForeignKeys
  BY <1>1 DEF References
<1>2. CASE Table(k) \in DOMAIN ForeignKeys
  <2>. DEFINE F == ForeignKeys[Table(k)]
  <2>1. \A c \in DOMAIN F : c \in DOMAIN row /\ c \notin {"user", "source"}
    BY <1>2, KeyColumns DEF FitsSchema
  <2>2. \A c \in DOMAIN F : Imported(row, user)[c] = row[c]
    BY <2>1 DEF Imported
  <2>. QED BY <1>2, <2>2 DEF References
<1>. QED BY <1>1, <1>2

\* The values a restored row has.
LEMMA ImportedColumns ==
  ASSUME NEW row, {"user", "source"} \subseteq DOMAIN row, NEW user
  PROVE  /\ DOMAIN Imported(row, user) = DOMAIN row
         /\ Imported(row, user).user = user
         /\ \A c \in DOMAIN row \ {"user", "source"} : Imported(row, user)[c] = row[c]
BY DEF Imported

\* Two restored rows rival only as the exported ones did.
LEMMA ImportedRival ==
  ASSUME NEW rows, NEW owner, Exported(rows, owner), NEW user,
         NEW keys \in SUBSET DOMAIN rows, NEW key \in DOMAIN rows, NEW other \in keys
  PROVE  ~Rival(Copies(rows, keys, user), key, Imported(rows[key], user), other)
<1>. DEFINE db2 == Copies(rows, keys, user)
            U == UniqueColumns[Table(key)]
<1>1. db2[other] = Imported(rows[other], user)
  BY DEF Copies
<1>. HIDE DEF db2
<1>2. SUFFICES ASSUME Rival(db2, key, Imported(rows[key], user), other) PROVE FALSE
  BY DEF db2
<1>3. /\ other # key /\ Table(other) = Table(key)
      /\ Table(key) \in DOMAIN UniqueColumns
      /\ \A c \in U : db2[other][c] = Imported(rows[key], user)[c]
  BY <1>2 DEF Rival
<1>4. ASSUME NEW k \in {key, other}
      PROVE  /\ {"user", "source", "deleted"} \subseteq DOMAIN rows[k] /\ U \subseteq DOMAIN rows[k]
             /\ rows[k].user = owner
  <2>1. k \in DOMAIN rows /\ Table(k) = Table(key)
    BY <1>3
  <2>2. RowOK(k, rows[k]) /\ rows[k].user = owner
    BY <2>1 DEF Exported
  <2>. QED BY <1>3, <2>1, <2>2 DEF RowOK, FitsSchema
<1>5. ASSUME NEW k \in {key, other}
      PROVE  /\ Imported(rows[k], user).deleted = rows[k].deleted
             /\ \A c \in U \ {"user"} : Imported(rows[k], user)[c] = rows[k][c]
  BY <1>3, <1>4, ImportedColumns, KeyColumns
<1>6. \A c \in U : rows[other][c] = rows[key][c]
  BY <1>1, <1>3, <1>4, <1>5
<1>7. Table(key) # "external_facts" => Live(rows[key]) /\ Live(rows[other])
  BY <1>1, <1>2, <1>5 DEF Rival, Live
<1>8. Table(key) = "time_entries" => rows[key].ends = None
  <2>1. Table(key) = "time_entries" => "ends" \in U \ {"user"}
    BY DEF UniqueColumns
  <2>. QED BY <1>2, <1>5, <2>1 DEF Rival
<1>9. Rival(rows, key, rows[key], other)
  BY <1>3, <1>6, <1>7, <1>8 DEF Rival
<1>. QED BY <1>9 DEF Exported

\* A row whose references are there is stored.
LEMMA RowCopied ==
  ASSUME NEW rows, NEW owner, Exported(rows, owner), NEW user,
         NEW keys \in SUBSET DOMAIN rows, NEW key \in DOMAIN rows \ keys,
         NEW s, Copied(s, rows, keys, user),
         NEW before, key \notin DOMAIN before, References(key, rows[key]) \subseteq keys
  PROVE  Copied(RestoreRow(s, before, key, Imported(rows[key], user), user),
                rows, keys \cup {key}, user)
<1>. DEFINE row == Imported(rows[key], user)
            t == RestoreRow(s, before, key, row, user)
<1>1. Importing(s) /\ s.ok /\ s.db = [k \in keys |-> Imported(rows[k], user)]
  BY DEF Copied, Copies
<1>2. Storable(s.db, key, row)
  <2>1. References(key, row) = References(key, rows[key])
    BY ImportedReferences DEF Exported, RowOK
  <2>2. DOMAIN s.db = keys /\ s.db = Copies(rows, keys, user)
    BY <1>1 DEF Copies
  <2>3. ~Clashes(s.db, key, row)
    BY <2>2, ImportedRival DEF Clashes
  <2>. QED BY <2>1, <2>2, <2>3 DEF Storable
<1>3. t = [s EXCEPT !.db = Put(@, key, row), !.conflicts = @]
  <2>. HIDE DEF row
  <2>. QED BY <1>1, <1>2 DEF RestoreRow
<1>4. Put(s.db, key, row) = Copies(rows, keys \cup {key}, user)
  BY <1>1 DEF Put, Copies
<1>. HIDE DEF t, row
<1>5. Importing(t) /\ t.ok /\ t.db = Put(s.db, key, row)
  BY <1>1, <1>3 DEF Importing
<1>. QED BY <1>4, <1>5 DEF Copied, t, row

\* Of the nodes that are left one has a parent that is not: no node is taken
\* before its parent.
LEMMA NextReady ==
  ASSUME plan \in Plans, NEW rows, \A k \in DOMAIN rows : RowOK(k, rows[k]),
         NEW T, NEW left \in SUBSET RowsOf(rows, T), left # {}
  PROVE  LET key == NextRow(rows, left)
         IN  key \in left /\ (Table(key) = "nodes" => rows[key].parent \notin left)
<1>. DEFINE ready == {key \in left : Table(key) = "nodes" => rows[key].parent \notin left}
<1>1. \E key : key \in ready
  <2>1. CASE T # "nodes"
    BY <2>1 DEF RowsOf
  <2>2. CASE T = "nodes"
    <3>1. MintedInOrder(Parents(plan))
      BY UpkeepAssumption
    <3>2. \A k \in left : <<k, rows[k].parent>> \in Parents(plan)
      BY <2>2 DEF RowsOf, RowOK
    <3>3. left \in SUBSET {m[1] : m \in Parents(plan)}
      <4>1. ASSUME NEW k \in left PROVE k \in {m[1] : m \in Parents(plan)}
        <5>1. <<k, rows[k].parent>>[1] = k
          OBVIOUS
        <5>. QED BY <3>2, <5>1
      <4>. QED BY <4>1
    <3>4. PICK k \in left : \A m \in Parents(plan) : m[1] = k => m[2] \notin left
      BY <3>1, <3>3 DEF MintedInOrder
    <3>5. rows[k].parent \notin left
      BY <3>2, <3>4
    <3>. QED BY <3>5
  <2>. QED BY <2>1, <2>2
<1>2. NextRow(rows, left) = CHOOSE key \in left : ready = {} \/ key \in ready
  BY DEF NextRow
<1>3. ready \subseteq left
  OBVIOUS
<1>4. NextRow(rows, left) \in ready
  <2>. HIDE DEF ready
  <2>. DEFINE P(key) == ready = {} \/ key \in ready
  <2>1. \E key \in left : P(key)
    BY <1>1, <1>3
  <2>2. NextRow(rows, left) = CHOOSE key \in left : P(key)
    BY <1>2
  <2>3. P(NextRow(rows, left))
    <3>. HIDE DEF P
    <3>. QED BY <2>1, <2>2
  <2>. QED BY <1>1, <2>3
<1>. QED BY <1>4 DEF ready

\* A node references its parent and nothing else.
LEMMA ParentOnly ==
  ASSUME NEW k, NEW row, FitsSchema(k, row), Table(k) = "nodes"
  PROVE  /\ References(k, row) = {row.parent} \ {None}
         /\ row.parent = None \/ Table(row.parent) = "nodes"
BY DEF References, ForeignKeys, FitsSchema

\* A table of the file whose rows reference rows that are stored already, or one
\* another, is stored whole.
LEMMA FreshTable ==
  ASSUME plan \in Plans, NEW rows, NEW owner, Exported(rows, owner),
         IsFiniteSet(DOMAIN rows), NEW user, NEW T,
         NEW done \in SUBSET DOMAIN rows, done \cap RowsOf(rows, T) = {},
         T # "nodes" => \A k \in RowsOf(rows, T) : References(k, rows[k]) \subseteq done,
         NEW s, Copied(s, rows, done, user)
  PROVE  Copied(RestoreTable(s, Restrict(rows, RowsOf(rows, T)), user),
                rows, done \cup RowsOf(rows, T), user)
<1>. DEFINE R == RowsOf(rows, T)
            some == Restrict(rows, R)
            N == Cardinality(R)
            Going(l, n) == /\ l.left \in SUBSET R /\ IsFiniteSet(l.left)
                           /\ Cardinality(l.left) = N - n
                           /\ Copied(l.state, rows, done \cup (R \ l.left), user)
<1>1. /\ R \subseteq DOMAIN rows /\ IsFiniteSet(R) /\ N \in Nat
      /\ DOMAIN some = R /\ \A k \in R : some[k] = rows[k]
      /\ \A k \in R : Table(k) = T
  <2>1. R \subseteq DOMAIN rows /\ \A k \in R : Table(k) = T
    BY DEF RowsOf
  <2>2. DOMAIN some = R /\ \A k \in R : some[k] = rows[k]
    BY DEF Restrict
  <2>. HIDE DEF R, some
  <2>. QED BY <2>1, <2>2, FS_Subset, FS_CardinalityType
<1>2. RowsOf(some, T) = R /\ \A k \in DOMAIN some : RowOK(k, some[k])
  <2>1. RowsOf(some, T) = R
    BY <1>1 DEF RowsOf
  <2>. QED BY <1>1, <2>1 DEF Exported
<1>3. \A k \in R : FitsSchema(k, rows[k]) /\ References(k, rows[k]) \subseteq DOMAIN rows
  BY <1>1 DEF Exported, RowOK
<1>4. s.db = Copies(rows, done, user) /\ DOMAIN s.db = done
  BY DEF Copied, Copies
<1>. HIDE DEF R, some, N
<1>5. PICK loop :
        /\ loop[0] = [left |-> R, state |-> s]
        /\ \A n \in Nat : n < N => loop[n + 1] = RestoreRound(some, s.db, user, loop[n])
        /\ RestoreTable(s, some, user) = loop[N].state
  BY <1>1, TableLoop DEF N
<1>6. Going(loop[0], 0)
  <2>1. done \cup (R \ R) = done /\ N - 0 = N /\ Cardinality(R) = N
    BY <1>1 DEF N
  <2>2. loop[0].left = R /\ loop[0].state = s
    BY <1>5
  <2>. QED BY <1>1, <2>1, <2>2
<1>7. ASSUME NEW l, NEW n \in Nat, n < N, Going(l, n)
      PROVE  Going(RestoreRound(some, s.db, user, l), n + 1)
  <2>. DEFINE key == NextRow(some, l.left)
              row == Imported(some[key], user)
              t == RestoreRow(l.state, s.db, key, row, user)
              keys == done \cup (R \ l.left)
  <2>1. l.left # {}
    <3>1. Cardinality(l.left) # 0
      BY <1>1, <1>7
    <3>. QED BY <3>1, FS_EmptySet
  <2>2. key \in l.left /\ (Table(key) = "nodes" => some[key].parent \notin l.left)
    <3>1. l.left \in SUBSET RowsOf(some, T)
      BY <1>2, <1>7
    <3>. QED BY <1>2, <2>1, <3>1, NextReady
  <2>3. RestoreRound(some, s.db, user, l) = [left |-> l.left \ {key}, state |-> t]
    BY <2>1 DEF RestoreRound
  <2>. HIDE DEF key, t
  <2>4. key \in R /\ key \in DOMAIN rows /\ some[key] = rows[key] /\ Table(key) = T
        /\ key \notin done /\ key \notin DOMAIN s.db
    <3>1. done \cap R = {}
      BY DEF R
    <3>. QED BY <1>1, <1>4, <1>7, <2>2, <3>1
  <2>5. References(key, rows[key]) \subseteq keys
    <3>1. CASE T # "nodes"
      BY <2>4, <3>1 DEF R
    <3>2. CASE T = "nodes"
      <4>1. References(key, rows[key]) = {rows[key].parent} \ {None}
            /\ (rows[key].parent = None \/ Table(rows[key].parent) = "nodes")
        BY <1>3, <2>4, <3>2, ParentOnly
      <4>2. References(key, rows[key]) \subseteq R
        BY <1>3, <2>4, <3>2, <4>1 DEF R, RowsOf
      <4>. QED BY <2>2, <2>4, <3>2, <4>1, <4>2
    <3>. QED BY <3>1, <3>2
  <2>6. keys \in SUBSET DOMAIN rows /\ key \in DOMAIN rows \ keys
    BY <1>1, <2>2, <2>4
  <2>7. Copied(t, rows, keys \cup {key}, user)
    <3>1. Copied(l.state, rows, keys, user)
      BY <1>7
    <3>. HIDE DEF keys
    <3>2. Copied(RestoreRow(l.state, s.db, key, Imported(rows[key], user), user), rows, keys \cup {key}, user)
      BY <2>4, <2>5, <2>6, <3>1, RowCopied
    <3>. QED BY <2>4, <3>2 DEF t
  <2>8. keys \cup {key} = done \cup (R \ (l.left \ {key}))
    BY <2>2, <2>4
  <2>9. l.left \ {key} \in SUBSET R /\ IsFiniteSet(l.left \ {key})
        /\ Cardinality(l.left \ {key}) = N - (n + 1)
    <3>1. IsFiniteSet(l.left \ {key}) /\ Cardinality(l.left \ {key}) = Cardinality(l.left) - 1
      BY <1>7, <2>2, FS_RemoveElement
    <3>. QED BY <1>1, <1>7, <3>1
  <2>. DEFINE m == RestoreRound(some, s.db, user, l)
  <2>10. m.left = l.left \ {key} /\ m.state = t
    BY <2>3
  <2>11. Copied(t, rows, done \cup (R \ (l.left \ {key})), user)
    BY <2>7, <2>8
  <2>. HIDE DEF m, keys
  <2>12. Going(m, n + 1)
    BY <2>9, <2>10, <2>11
  <2>. QED BY <2>12 DEF m
<1>8. Going(loop[N], N)
  <2>. DEFINE U == {n \in Nat : Going(loop[n], n)}
  <2>. HIDE DEF Going
  <2>1. 0 \in U
    BY <1>6
  <2>2. ASSUME NEW n \in Nat, n < N /\ n \in U PROVE n + 1 \in U
    BY <1>5, <1>7, <2>2
  <2>. HIDE DEF U
  <2>3. N \in U
    BY <1>1, <2>1, <2>2, Reached
  <2>. QED BY <2>3 DEF U
<1>9. loop[N].left = {}
  <2>1. Cardinality(loop[N].left) = 0 /\ IsFiniteSet(loop[N].left)
    BY <1>1, <1>8
  <2>. QED BY <2>1, FS_EmptySet
<1>10. done \cup (R \ {}) = done \cup R
  OBVIOUS
<1>. QED BY <1>5, <1>8, <1>9, <1>10 DEF R, some

\* The tables in the order of the import, each after those it references.
LEMMA ImportOrder ==
  /\ Len(RestoreOrder) = 23
  /\ \A i, j \in 1 .. 23 : RestoreOrder[i] = RestoreOrder[j] => i = j
  /\ \A i \in 1 .. 23 : RestoreOrder[i] \in DOMAIN ForeignKeys \ {"nodes"} =>
       \A c \in DOMAIN ForeignKeys[RestoreOrder[i]] :
         \E j \in 1 .. (i - 1) : ForeignKeys[RestoreOrder[i]][c] = RestoreOrder[j]
  /\ {RestoreOrder[i] : i \in 1 .. 23}
       = ToSet(Registry) \ {"command_log", "user_settings", "task_steps"}
<1>. DEFINE Place == 
      [nodes |-> 1, tags |-> 2, decision_boards |-> 3, sprints |-> 4, automation_rules |-> 5,
       blocker_rules |-> 6, external_facts |-> 7, computed_aggregates |-> 8,
       schedule_suggestion_batches |-> 9, sync_review_items |-> 10, journal_entries |-> 11,
       habits |-> 12, edges |-> 13, schedule_blocks |-> 14, time_entries |-> 15,
       decision_criteria |-> 16, sprint_memberships |-> 17, diagram_layouts |-> 18,
       diagram_groups |-> 19, habit_completions |-> 20, tag_placements |-> 21,
       decision_scores |-> 22, tag_answers |-> 23]
<1>1. Len(RestoreOrder) = 23
  BY DEF RestoreOrder
<1>2. \A i \in 1 .. 23 : RestoreOrder[i] \in DOMAIN Place /\ Place[RestoreOrder[i]] = i
  BY DEF RestoreOrder
<1>3. \A T \in DOMAIN Place : Place[T] \in 1 .. 23 /\ RestoreOrder[Place[T]] = T
  BY DEF RestoreOrder
<1>4. DOMAIN Place = ToSet(Registry) \ {"command_log", "user_settings", "task_steps"}
  BY DEF Registry, ToSet
<1>5. \A T \in DOMAIN ForeignKeys \ {"nodes", "task_steps"} :
        \A c \in DOMAIN ForeignKeys[T] :
           ForeignKeys[T][c] \in DOMAIN Place /\ Place[ForeignKeys[T][c]] < Place[T]
  BY DEF ForeignKeys
<1>6. "task_steps" \notin DOMAIN Place
  OBVIOUS
<1>. HIDE DEF Place
<1>7. \A i, j \in 1 .. 23 : RestoreOrder[i] = RestoreOrder[j] => i = j
  BY <1>2
<1>8. ASSUME NEW i \in 1 .. 23, RestoreOrder[i] \in DOMAIN ForeignKeys \ {"nodes"},
             NEW c \in DOMAIN ForeignKeys[RestoreOrder[i]]
      PROVE  \E j \in 1 .. (i - 1) : ForeignKeys[RestoreOrder[i]][c] = RestoreOrder[j]
  <2>. DEFINE t == ForeignKeys[RestoreOrder[i]][c]
  <2>1. t \in DOMAIN Place /\ Place[t] < i
    BY <1>2, <1>5, <1>6, <1>8
  <2>. QED BY <1>3, <2>1
<1>9. {RestoreOrder[i] : i \in 1 .. 23} = DOMAIN Place
  BY <1>2, <1>3
<1>. QED BY <1>1, <1>4, <1>7, <1>8, <1>9

\* The rows of the first tables of the import.
Stored(rows, n) == {k \in DOMAIN rows : \E i \in 1 .. n : Table(k) = RestoreOrder[i]}

\* What a row references is in the tables before its own.
LEMMA ReferencesStored ==
  ASSUME NEW rows, NEW owner, Exported(rows, owner), NEW n \in Nat, n < 23,
         NEW k \in RowsOf(rows, RestoreOrder[n + 1]), RestoreOrder[n + 1] # "nodes"
  PROVE  References(k, rows[k]) \subseteq Stored(rows, n)
<1>. DEFINE T == RestoreOrder[n + 1]
            F == ForeignKeys[T]
<1>1. k \in DOMAIN rows /\ Table(k) = T
  BY DEF RowsOf
<1>2. FitsSchema(k, rows[k]) /\ References(k, rows[k]) \subseteq DOMAIN rows
  BY <1>1 DEF Exported, RowOK
<1>3. SUFFICES ASSUME NEW r \in References(k, rows[k]) PROVE r \in Stored(rows, n)
  OBVIOUS
<1>4. PICK c \in DOMAIN F : T \in DOMAIN ForeignKeys /\ r = rows[k][c] /\ r # None
  BY <1>1 DEF References
<1>5. Table(r) = F[c]
  BY <1>1, <1>2, <1>4 DEF FitsSchema
<1>6. n + 1 \in 1 .. 23 /\ (n + 1) - 1 = n
  OBVIOUS
<1>7. \E j \in 1 .. n : F[c] = RestoreOrder[j]
  BY <1>4, <1>6, ImportOrder
<1>. QED BY <1>2, <1>5, <1>7 DEF Stored

\* Into an empty database every table of an export is stored whole.
LEMMA FreshTables ==
  ASSUME plan \in Plans, NEW rows, NEW owner, Exported(rows, owner), IsFiniteSet(DOMAIN rows), NEW user
  PROVE  \E t : /\ Copied(t, rows, Stored(rows, 23), user)
                /\ RestoreRows(<< >>, rows, user) = RestoreSettings(t, rows, user)
<1>. DEFINE table(s, n) == RestoreTable(s, Restrict(rows, RowsOf(rows, RestoreOrder[n])), user)
            Going(s, n) == Copied(s, rows, Stored(rows, n), user)
            start == [db |-> << >>, ok |-> TRUE, conflicts |-> {}]
<1>1. PICK after : /\ after[0] = start
                   /\ \A n \in Nat : n < 23 => after[n + 1] = table(after[n], n + 1)
                   /\ RestoreRows(<< >>, rows, user) = RestoreSettings(after[23], rows, user)
  BY ImportOrder, TablesLoop
<1>2. Going(after[0], 0)
  <2>1. Stored(rows, 0) = {}
    BY DEF Stored
  <2>2. Copies(rows, {}, user) = << >>
    BY DEF Copies
  <2>3. Importing(start) /\ start.ok /\ start.db = << >>
    BY DEF Importing
  <2>. HIDE DEF start
  <2>. QED BY <1>1, <2>1, <2>2, <2>3 DEF Copied
<1>3. ASSUME NEW s, NEW n \in Nat, n < 23, Going(s, n) PROVE Going(table(s, n + 1), n + 1)
  <2>. DEFINE T == RestoreOrder[n + 1]
              done == Stored(rows, n)
  <2>1. done \in SUBSET DOMAIN rows
    BY DEF Stored
  <2>2. done \cap RowsOf(rows, T) = {}
    BY <1>3, ImportOrder DEF Stored, RowsOf
  <2>3. T # "nodes" => \A k \in RowsOf(rows, T) : References(k, rows[k]) \subseteq done
    BY <1>3, ReferencesStored
  <2>4. done \cup RowsOf(rows, T) = Stored(rows, n + 1)
    <3>1. 1 .. (n + 1) = (1 .. n) \cup {n + 1}
      OBVIOUS
    <3>. QED BY <3>1 DEF Stored, RowsOf
  <2>5. Copied(s, rows, done, user)
    BY <1>3
  <2>. HIDE DEF done, T
  <2>6. Copied(RestoreTable(s, Restrict(rows, RowsOf(rows, T)), user), rows, done \cup RowsOf(rows, T), user)
    BY <2>1, <2>2, <2>3, <2>5, FreshTable
  <2>. QED BY <2>4, <2>6 DEF T
<1>4. Going(after[23], 23)
  <2>. DEFINE U == {n \in Nat : Going(after[n], n)}
  <2>. HIDE DEF Going, table, start
  <2>1. 0 \in U
    BY <1>2
  <2>2. ASSUME NEW n \in Nat, n < 23 /\ n \in U PROVE n + 1 \in U
    BY <1>1, <1>3, <2>2
  <2>. HIDE DEF U
  <2>3. 23 \in U
    BY <2>1, <2>2, Reached
  <2>. QED BY <2>3 DEF U
<1>. HIDE DEF table, start
<1>. QED BY <1>1, <1>4

\* Rows in which every one is as it should be, an account references its own
\* rows only, and no two live ones of it share a natural key.
Sound(D) ==
  /\ \A k \in DOMAIN D : RowOK(k, D[k]) /\ (Agg(k) => D[k].user = plan.user)
  /\ \A k \in DOMAIN D : D[k].user = plan.user =>
       /\ \A r \in References(k, D[k]) : r \in DOMAIN D /\ D[r].user = plan.user
       /\ \A o \in DOMAIN D : D[o].user = plan.user => ~Rival(D, k, D[k], o)

\* What an import of the whole file into an empty account leaves.
LEMMA WholeFile ==
  ASSUME plan \in Plans, NEW rows, NEW owner, Exported(rows, owner), IsFiniteSet(DOMAIN rows),
         NEW user
  PROVE  LET done == RestoreRows(<< >>, rows, user)
             key(k) == IF Table(k) = "user_settings" THEN <<"user_settings", user>> ELSE k
             moved == {k \in DOMAIN rows : Table(k) # "task_steps"}
         IN  /\ done.ok
             /\ DOMAIN done.db = {key(k) : k \in moved}
             /\ \A k \in moved : \A c \in DOMAIN rows[k] \ {"user", "source"} :
                  done.db[key(k)][c] = rows[k][c]
<1>. DEFINE done == RestoreRows(<< >>, rows, user)
            mine == <<"user_settings", user>>
            key(k) == IF Table(k) = "user_settings" THEN mine ELSE k
            moved == {k \in DOMAIN rows : Table(k) # "task_steps"}
            filed == RowsOf(rows, "user_settings")
            keys == Stored(rows, 23)
<1>1. PICK t : Copied(t, rows, keys, user) /\ done = RestoreSettings(t, rows, user)
  BY FreshTables
<1>2. /\ Importing(t) /\ t.ok /\ DOMAIN t.db = keys
      /\ \A k \in keys : t.db[k] = Imported(rows[k], user)
  <2>1. Importing(t) /\ t.ok /\ t.db = [k \in keys |-> Imported(rows[k], user)]
    BY <1>1 DEF Copied, Copies
  <2>. HIDE DEF keys
  <2>. QED BY <2>1
<1>3. \A k \in DOMAIN rows :
        /\ RowOK(k, rows[k]) /\ rows[k].user = owner
        /\ Table(k) \in ToSet(Registry) \ {"command_log"}
        /\ {"user", "source"} \subseteq DOMAIN rows[k]
        /\ Table(k) = "user_settings" => k = <<"user_settings", owner>>
  BY DEF Exported, RowOK, FitsSchema
<1>4. keys = moved \ filed /\ filed \subseteq moved
  <2>1. \A k \in DOMAIN rows :
          k \in keys <=> Table(k) \notin {"command_log", "user_settings", "task_steps"}
    BY <1>3, ImportOrder DEF Stored
  <2>2. keys \subseteq DOMAIN rows
    BY DEF Stored
  <2>. HIDE DEF keys
  <2>. QED BY <1>3, <2>1, <2>2 DEF RowsOf
<1>5. mine \notin keys /\ \A k \in keys : key(k) = k
  <2>1. Table(mine) = "user_settings"
    BY DEF Table
  <2>2. \A k \in keys : Table(k) # "user_settings"
    BY <1>4 DEF RowsOf
  <2>. HIDE DEF keys, mine
  <2>. QED BY <2>1, <2>2
<1>6. \A k \in keys : \A c \in DOMAIN rows[k] \ {"user", "source"} : t.db[k][c] = rows[k][c]
  BY <1>2, <1>3, <1>4, ImportedColumns
<1>. HIDE DEF keys, done
<1>7. CASE filed = {}
  <2>1. done = t
    BY <1>1, <1>7 DEF RestoreSettings
  <2>2. {key(k) : k \in moved} = keys
    BY <1>4, <1>5, <1>7
  <2>. HIDE DEF key, moved
  <2>3. \A k \in moved : k \in keys /\ key(k) = k
    BY <1>4, <1>5, <1>7
  <2>4. /\ done.ok /\ DOMAIN done.db = {key(k) : k \in moved}
        /\ \A k \in moved : \A c \in DOMAIN rows[k] \ {"user", "source"} :
             done.db[key(k)][c] = rows[k][c]
    BY <1>2, <1>6, <2>1, <2>2, <2>3
  <2>. QED BY <2>4 DEF key, moved, done
<1>8. CASE filed # {}
  <2>. DEFINE S == CHOOSE k \in filed : TRUE
              row == [rows[S] EXCEPT !.user = user]
  <2>1. S \in filed
    BY <1>8
  <2>. HIDE DEF S
  <2>2. S \in DOMAIN rows /\ filed = {S} /\ Table(S) = "user_settings"
    BY <1>3, <2>1 DEF RowsOf
  <2>3. done = [t EXCEPT !.db = Put(@, mine, row)]
    <3>1. ~(mine \in DOMAIN t.db /\ t.db[mine].updated >= row.updated)
      BY <1>2, <1>5
    <3>. QED BY <1>1, <1>2, <1>8, <3>1 DEF RestoreSettings, S
  <2>4. done.ok /\ done.db = Put(t.db, mine, row)
    <3>. HIDE DEF row, mine
    <3>. QED BY <1>2, <2>3 DEF Importing
  <2>5. \A c \in DOMAIN rows[S] \ {"user", "source"} : row[c] = rows[S][c]
    OBVIOUS
  <2>6. DOMAIN done.db = keys \cup {mine} /\ done.db[mine] = row /\ \A k \in keys : done.db[k] = t.db[k]
    <3>. HIDE DEF row, mine
    <3>. QED BY <1>2, <1>5, <2>4 DEF Put
  <2>7. key(S) = mine /\ moved = keys \cup {S}
    BY <1>4, <2>2
  <2>. HIDE DEF key, moved, row, mine
  <2>8. {key(k) : k \in moved} = keys \cup {mine}
    BY <1>5, <2>7
  <2>9. ASSUME NEW k \in moved, NEW c \in DOMAIN rows[k] \ {"user", "source"}
        PROVE  done.db[key(k)][c] = rows[k][c]
    <3>1. CASE k = S
      BY <2>5, <2>6, <2>7, <3>1
    <3>2. CASE k # S
      BY <1>5, <1>6, <2>6, <2>7, <3>2
    <3>. QED BY <3>1, <3>2
  <2>10. /\ done.ok /\ DOMAIN done.db = {key(k) : k \in moved}
         /\ \A k \in moved : \A c \in DOMAIN rows[k] \ {"user", "source"} :
              done.db[key(k)][c] = rows[k][c]
    BY <2>4, <2>6, <2>8, <2>9
  <2>. QED BY <2>10 DEF key, moved, done, mine
<1>. QED BY <1>7, <1>8

\* Sound rows round-trip.
LEMMA SoundRoundTrips ==
  ASSUME Facts, Sound(db), log = [c \in DOMAIN log |-> log[c]]
  PROVE  RoundTrip
<1>. DEFINE rows == Restrict(db, {k \in DOMAIN db : db[k].user = plan.user})
            file == Snapshot(db, log, plan.user)
            there == Restored(<< >>, << >>, file, Owner2)
            done == RestoreRows(<< >>, rows, Owner2)
            moved == {k \in DOMAIN rows : Table(k) # "task_steps"}
            key(k) == IF Table(k) = "user_settings" THEN <<"user_settings", Owner2>> ELSE k
<1>1. plan \in Plans /\ IsFiniteSet(DOMAIN db)
  BY DEF Facts
<1>2. /\ DOMAIN rows = {k \in DOMAIN db : db[k].user = plan.user}
      /\ \A k \in DOMAIN rows : rows[k] = db[k]
  BY DEF Restrict
<1>3. file.rows = rows /\ file.history = log
  BY DEF Snapshot
<1>. HIDE DEF rows, file
<1>4. IsFiniteSet(DOMAIN rows)
  BY <1>1, <1>2, FS_Subset
<1>5. Exported(rows, plan.user)
  <2>1. ASSUME NEW k \in DOMAIN rows
        PROVE  /\ RowOK(k, rows[k]) /\ rows[k].user = plan.user
               /\ References(k, rows[k]) \subseteq DOMAIN rows
    <3>1. k \in DOMAIN db /\ rows[k] = db[k] /\ db[k].user = plan.user
      BY <1>2
    <3>2. RowOK(k, db[k]) /\ \A r \in References(k, db[k]) : r \in DOMAIN db /\ db[r].user = plan.user
      BY <3>1 DEF Sound
    <3>. QED BY <1>2, <3>1, <3>2
  <2>2. ASSUME NEW k \in DOMAIN rows, NEW o \in DOMAIN rows PROVE ~Rival(rows, k, rows[k], o)
    <3>1. ~Rival(db, k, db[k], o)
      BY <1>2 DEF Sound
    <3>. QED BY <1>2, <3>1 DEF Rival
  <2>. QED BY <2>1, <2>2 DEF Exported
<1>6. /\ done.ok /\ DOMAIN done.db = {key(k) : k \in moved}
      /\ \A k \in moved : \A c \in DOMAIN rows[k] \ {"user", "source"} :
           done.db[key(k)][c] = rows[k][c]
  BY <1>1, <1>4, <1>5, WholeFile
<1>. HIDE DEF done
<1>7. there.ok /\ there.db = done.db /\ there.log = RestoreHistory(<< >>, log)
  BY <1>3, <1>6 DEF Restored, done
<1>8. RestoreHistory(<< >>, log) = log
  <2>1. DOMAIN << >> \cup DOMAIN log = DOMAIN log /\ DOMAIN << >> = {}
    OBVIOUS
  <2>2. RestoreHistory(<< >>, log) = [c \in DOMAIN log |-> log[c]]
    BY <2>1 DEF RestoreHistory
  <2>. QED BY <2>2
<1>9. \A k : Renamed(k) = key(k)
  BY DEF Renamed, SettingsOf
<1>. HIDE DEF there, key
<1>10. DOMAIN there.db = {Renamed(k) : k \in moved}
  BY <1>6, <1>7, <1>9
<1>11. \A k \in moved : \A c \in DOMAIN db[k] \ {"user", "source"} : there.db[Renamed(k)][c] = db[k][c]
  BY <1>2, <1>6, <1>7, <1>9
<1>. HIDE DEF moved
<1>12. /\ there.ok
       /\ DOMAIN there.db = {Renamed(k) : k \in moved}
       /\ \A k \in moved : \A c \in DOMAIN db[k] \ {"user", "source"} : there.db[Renamed(k)][c] = db[k][c]
       /\ there.log = log
  BY <1>7, <1>8, <1>10, <1>11
<1>13. moved = {k \in DOMAIN file.rows : Table(k) # "task_steps"}
  BY <1>3 DEF moved
<1>. QED BY <1>12, <1>13 DEF RoundTrip, there, file

-----------------------------------------------------------------------------
(* Rows stay sound: a step of the life of an account's rows after another.   *)

\* What a row gets when it is deleted, closed, stamped or imported.
Marks == {"deleted", "updated", "hlc", "source", "status", "resolved"}

\* A row that was marked: it may die and never comes back to life.
Marked(a, b) ==
  /\ DOMAIN b = DOMAIN a
  /\ \A c \in DOMAIN a \ Marks : b[c] = a[c]
  /\ Live(b) => Live(a)

\* Rows were marked and unreferenced ones are gone.
Faded(D, E) ==
  /\ DOMAIN E \subseteq DOMAIN D
  /\ \A k \in DOMAIN E : Marked(D[k], E[k])
  /\ \A k \in DOMAIN E : References(k, D[k]) \cap DOMAIN D \subseteq DOMAIN E

\* Every row belongs to whom it did, a new one to the account.
Owners(D, E) ==
  \A k \in DOMAIN E : E[k].user = IF k \in DOMAIN D THEN D[k].user ELSE plan.user

\* No row went either.
Grown(D, E) == DOMAIN D \subseteq DOMAIN E /\ Owners(D, E)

\* A key that is free or the account's.
Ours(D, k) == k \in DOMAIN D => D[k].user = plan.user

\* A file of the account: nothing in it is another account's.
FileOf(D, F) ==
  \A k \in DOMAIN F :
    /\ RowOK(k, F[k]) /\ F[k].user = plan.user
    /\ Ours(D, k) /\ \A r \in References(k, F[k]) : Ours(D, r)

\* A row that changed neither its owner nor its key columns references what it
\* did and is as it should be.
LEMMA MarkedRow ==
  ASSUME NEW k, NEW a, RowOK(k, a), NEW b, Marked(a, b)
  PROVE  /\ RowOK(k, b) /\ b.user = a.user /\ References(k, b) = References(k, a)
         /\ Table(k) \in DOMAIN UniqueColumns =>
              \A c \in UniqueColumns[Table(k)] : c \in DOMAIN a /\ b[c] = a[c]
<1>1. /\ FitsSchema(k, a) /\ DOMAIN b = DOMAIN a
      /\ \A c \in DOMAIN a \ Marks : b[c] = a[c]
  BY DEF RowOK, Marked
<1>2. b.user = a.user
  BY <1>1 DEF FitsSchema, Marks
<1>3. Table(k) \in DOMAIN ForeignKeys =>
        \A c \in DOMAIN ForeignKeys[Table(k)] : c \in DOMAIN a /\ b[c] = a[c]
  BY <1>1, KeyColumns DEF FitsSchema, Marks
<1>4. Table(k) \in DOMAIN UniqueColumns =>
        \A c \in UniqueColumns[Table(k)] : c \in DOMAIN a /\ b[c] = a[c]
  BY <1>1, KeyColumns DEF FitsSchema, Marks
<1>5. References(k, b) = References(k, a)
  BY <1>3 DEF References
<1>6. FitsSchema(k, b)
  BY <1>1, <1>2, <1>3 DEF FitsSchema
<1>7. Table(k) = "nodes" => b.parent = a.parent
  <2>1. "nodes" \in DOMAIN ForeignKeys /\ "parent" \in DOMAIN ForeignKeys["nodes"]
    BY DEF ForeignKeys
  <2>. QED BY <1>3, <2>1
<1>8. Agg(k) => b.subject = a.subject /\ b.metric = a.metric
  <2>1. /\ "computed_aggregates" \in DOMAIN UniqueColumns
        /\ {"subject", "metric"} \subseteq UniqueColumns["computed_aggregates"]
    BY DEF UniqueColumns
  <2>. QED BY <1>4, <2>1 DEF Agg
<1>. QED BY <1>2, <1>4, <1>5, <1>6, <1>7, <1>8 DEF RowOK

\* Rows stay sound while they fade.
LEMMA FadedSound ==
  ASSUME NEW D, Sound(D), NEW E, Faded(D, E)
  PROVE  Sound(E) /\ Owners(D, E)
<1>1. ASSUME NEW k \in DOMAIN E
      PROVE  /\ k \in DOMAIN D /\ RowOK(k, D[k]) /\ RowOK(k, E[k]) /\ E[k].user = D[k].user
             /\ References(k, E[k]) = References(k, D[k])
             /\ Live(E[k]) => Live(D[k])
             /\ Table(k) \in DOMAIN UniqueColumns =>
                  \A c \in UniqueColumns[Table(k)] : E[k][c] = D[k][c]
  <2>1. k \in DOMAIN D /\ Marked(D[k], E[k])
    BY DEF Faded
  <2>2. RowOK(k, D[k])
    BY <2>1 DEF Sound
  <2>. QED BY <2>1, <2>2, MarkedRow DEF Marked
<1>2. Owners(D, E)
  BY <1>1 DEF Owners
<1>3. \A k \in DOMAIN E : RowOK(k, E[k]) /\ (Agg(k) => E[k].user = plan.user)
  BY <1>1 DEF Sound
<1>4. ASSUME NEW k \in DOMAIN E, E[k].user = plan.user, NEW r \in References(k, E[k])
      PROVE  r \in DOMAIN E /\ E[r].user = plan.user
  <2>1. r \in DOMAIN D /\ D[r].user = plan.user
    BY <1>1, <1>4 DEF Sound
  <2>2. r \in DOMAIN E
    BY <1>1, <1>4, <2>1 DEF Faded
  <2>. QED BY <1>1, <2>1, <2>2
<1>5. ASSUME NEW k \in DOMAIN E, E[k].user = plan.user,
             NEW o \in DOMAIN E, E[o].user = plan.user, Rival(E, k, E[k], o)
      PROVE  FALSE
  <2>1. ~Rival(D, k, D[k], o)
    BY <1>1, <1>5 DEF Sound
  <2>2. Table(k) = "time_entries" => E[k].ends = D[k].ends
    <3>1. "time_entries" \in DOMAIN UniqueColumns /\ "ends" \in UniqueColumns["time_entries"]
      BY DEF UniqueColumns
    <3>. QED BY <1>1, <3>1
  <2>. QED BY <1>1, <1>5, <2>1, <2>2 DEF Rival
<1>. QED BY <1>2, <1>3, <1>4, <1>5 DEF Sound

\* Rows stay sound when the account stores one of its own.
LEMMA PutSound ==
  ASSUME NEW D, Sound(D), NEW key, Ours(D, key), NEW row, RowOK(key, row), row.user = plan.user,
         Storable(D, key, row), \A r \in References(key, row) : Ours(D, r)
  PROVE  Sound(Put(D, key, row)) /\ Grown(D, Put(D, key, row))
<1>. DEFINE E == Put(D, key, row)
<1>1. /\ DOMAIN E = DOMAIN D \cup {key} /\ E[key] = row
      /\ \A k \in DOMAIN D : k # key => E[k] = D[k]
  BY DEF Put
<1>. HIDE DEF E
<1>2. Grown(D, E)
  BY <1>1 DEF Grown, Owners, Ours
<1>3. \A k \in DOMAIN E : RowOK(k, E[k]) /\ (Agg(k) => E[k].user = plan.user)
  BY <1>1 DEF Sound
<1>4. ASSUME NEW k \in DOMAIN E, E[k].user = plan.user, NEW r \in References(k, E[k])
      PROVE  r \in DOMAIN E /\ E[r].user = plan.user
  <2>1. CASE k = key
    <3>1. r \in DOMAIN D \cup {key} /\ Ours(D, r)
      BY <1>1, <1>4, <2>1 DEF Storable
    <3>. QED BY <1>1, <3>1 DEF Ours
  <2>2. CASE k # key
    <3>1. r \in DOMAIN D /\ D[r].user = plan.user
      BY <1>1, <1>4, <2>2 DEF Sound
    <3>. QED BY <1>1, <3>1
  <2>. QED BY <2>1, <2>2
<1>5. ASSUME NEW k \in DOMAIN E, E[k].user = plan.user,
             NEW o \in DOMAIN E, E[o].user = plan.user, Rival(E, k, E[k], o)
      PROVE  FALSE
  <2>1. o # k
    BY <1>5 DEF Rival
  <2>2. CASE k = key
    <3>1. o \in DOMAIN D /\ E[o] = D[o]
      BY <1>1, <2>1, <2>2
    <3>2. Rival(D, key, row, o)
      BY <1>1, <1>5, <2>2, <3>1 DEF Rival
    <3>. QED BY <3>1, <3>2 DEF Storable, Clashes
  <2>3. CASE o = key
    <3>1. k \in DOMAIN D /\ E[k] = D[k] /\ E[o] = row
      BY <1>1, <2>1, <2>3
    <3>2. Table(k) = "time_entries" => row.ends = None
      <4>1. "time_entries" \in DOMAIN UniqueColumns /\ "ends" \in UniqueColumns["time_entries"]
        BY DEF UniqueColumns
      <4>. QED BY <1>5, <3>1, <4>1 DEF Rival
    <3>3. Rival(D, key, row, k)
      BY <1>5, <2>3, <3>1, <3>2 DEF Rival
    <3>. QED BY <3>1, <3>3 DEF Storable, Clashes
  <2>4. CASE k # key /\ o # key
    <3>1. k \in DOMAIN D /\ o \in DOMAIN D /\ E[k] = D[k] /\ E[o] = D[o]
      BY <1>1, <2>4
    <3>2. Rival(D, k, D[k], o)
      BY <1>5, <3>1 DEF Rival
    <3>. QED BY <1>5, <3>1, <3>2 DEF Sound
  <2>. QED BY <2>2, <2>3, <2>4
<1>6. Sound(E)
  BY <1>3, <1>4, <1>5 DEF Sound
<1>. QED BY <1>2, <1>6 DEF E

\* A file stays the account's while owners stay.
LEMMA FileKept ==
  ASSUME NEW D, NEW E, Owners(D, E), NEW F, FileOf(D, F)
  PROVE  FileOf(E, F)
<1>1. \A k : Ours(D, k) => Ours(E, k)
  BY DEF Owners, Ours
<1>. QED BY <1>1 DEF FileOf

\* Nothing changed.
LEMMA SameSound ==
  ASSUME NEW D, Sound(D)
  PROVE  Sound(D) /\ Grown(D, D) /\ Owners(D, D)
BY DEF Grown, Owners

\* A row stamped, deleted or closed is marked.
LEMMA Marking ==
  ASSUME day \in Int, NEW row, {"user", "deleted", "updated", "hlc", "source"} \subseteq DOMAIN row, NEW c
  PROVE  /\ Marked(row, row)
         /\ Marked(row, [Stamped(row, c) EXCEPT !.deleted = day])
         /\ Marked(row, [row EXCEPT !.deleted = day, !.updated = day])
         /\ Marked(row, [Stamped(row, c) EXCEPT !.status = c.status, !.resolved = day])
<1>1. day # None
  BY ArchiveAssumption
<1>2. Marked(row, row)
  BY DEF Marked
<1>3. Marked(row, [Stamped(row, c) EXCEPT !.deleted = day])
  BY <1>1 DEF Marked, Marks, Stamped, Live
<1>4. Marked(row, [row EXCEPT !.deleted = day, !.updated = day])
  BY <1>1 DEF Marked, Marks, Live
<1>5. Marked(row, [Stamped(row, c) EXCEPT !.status = c.status, !.resolved = day])
  BY DEF Marked, Marks, Stamped, Live
<1>. QED BY <1>2, <1>3, <1>4, <1>5

\* A command of the plan keeps the rows sound.
LEMMA HandledSound ==
  ASSUME plan \in Plans, day \in Int, Sound(db), NEW c \in Commands,
         c.verb \in {"create", "delete", "soft_delete", "close"},
         Table(c.key) \notin {"computed_aggregates", "user_settings"},
         c.verb = "create" => FitsSchema(c.key, c.row)
  PROVE  Sound(Handled(c).db) /\ Owners(db, Handled(c).db)
<1>. DEFINE Fine(D) == Sound(D) /\ Owners(db, D)
<1>1. Fine(db)
  BY SameSound
<1>2. \A k \in DOMAIN db : {"user", "deleted", "updated", "hlc", "source"} \subseteq DOMAIN db[k]
  BY DEF Sound, RowOK, FitsSchema
<1>3. CASE c.verb = "create"
  <2>. DEFINE row == Born(c)
  <2>1. /\ FitsSchema(c.key, c.row) /\ DOMAIN row = DOMAIN c.row /\ row.user = plan.user
        /\ \A x \in DOMAIN c.row \ {"user", "updated", "hlc"} : row[x] = c.row[x]
    BY <1>3 DEF FitsSchema, Born
  <2>. HIDE DEF row
  <2>2. Table(c.key) \in DOMAIN ForeignKeys =>
          \A x \in DOMAIN ForeignKeys[Table(c.key)] : x \in DOMAIN c.row /\ row[x] = c.row[x]
    BY <2>1, KeyColumns DEF FitsSchema
  <2>3. References(c.key, row) = References(c.key, c.row)
    BY <2>2 DEF References
  <2>4. RowOK(c.key, row)
    <3>1. FitsSchema(c.key, row)
      BY <2>1, <2>2 DEF FitsSchema
    <3>2. ASSUME Table(c.key) = "nodes" PROVE <<c.key, row.parent>> \in Parents(plan)
      <4>1. row.parent = c.row.parent
        <5>1. "nodes" \in DOMAIN ForeignKeys /\ "parent" \in DOMAIN ForeignKeys["nodes"]
          BY DEF ForeignKeys
        <5>. QED BY <2>2, <3>2, <5>1
      <4>2. <<c.key, c.row.parent>> \in Parents(plan)
        BY <1>3, <3>2 DEF Parents, Commands
      <4>. QED BY <4>1, <4>2
    <3>. QED BY <3>1, <3>2 DEF RowOK, Agg
  <2>5. CASE Create(c).db = db
    BY <1>1, <1>3, <2>5 DEF Handled
  <2>6. CASE Create(c).db # db
    <3>1. /\ Create(c).db = Put(db, c.key, row) /\ c.key \notin DOMAIN db
          /\ \A r \in References(c.key, c.row) : r \in DOMAIN db /\ db[r].user = plan.user
          /\ ~Clashes(db, c.key, row)
      BY <2>6 DEF Create, ConvergeOrOwn, AppliedAs, Rejected, Verdict, row
    <3>2. Storable(db, c.key, row)
      BY <2>3, <3>1 DEF Storable
    <3>3. Ours(db, c.key) /\ \A r \in References(c.key, row) : Ours(db, r)
      BY <2>3, <3>1 DEF Ours
    <3>4. Fine(Put(db, c.key, row))
      BY <2>1, <2>4, <3>2, <3>3, PutSound DEF Grown
    <3>. QED BY <1>3, <3>1, <3>4 DEF Handled
  <2>. QED BY <2>5, <2>6
<1>4. ASSUME NEW E, DOMAIN E = DOMAIN db,
             \A k \in DOMAIN db : \/ E[k] = db[k]
                                  \/ E[k] = [Stamped(db[k], c) EXCEPT !.deleted = day]
                                  \/ E[k] = [Stamped(db[k], c) EXCEPT !.status = c.status, !.resolved = day]
      PROVE  Fine(E)
  <2>1. ASSUME NEW k \in DOMAIN db PROVE Marked(db[k], E[k])
    <3>. DEFINE a == db[k]
    <3>1. {"user", "deleted", "updated", "hlc", "source"} \subseteq DOMAIN a
      BY <1>2
    <3>. HIDE DEF a
    <3>2. /\ Marked(a, a)
          /\ Marked(a, [Stamped(a, c) EXCEPT !.deleted = day])
          /\ Marked(a, [Stamped(a, c) EXCEPT !.status = c.status, !.resolved = day])
      BY <3>1, Marking
    <3>3. \/ E[k] = a
          \/ E[k] = [Stamped(a, c) EXCEPT !.deleted = day]
          \/ E[k] = [Stamped(a, c) EXCEPT !.status = c.status, !.resolved = day]
      BY <1>4 DEF a
    <3>. QED BY <3>2, <3>3 DEF a
  <2>2. Faded(db, E)
    BY <1>4, <2>1 DEF Faded
  <2>. QED BY <2>2, FadedSound
<1>5. CASE c.verb = "delete"
  <2>1. CASE Owned(c)
    <3>. DEFINE E == [db EXCEPT ![c.key] = [Stamped(@, c) EXCEPT !.deleted = day]]
    <3>1. /\ DOMAIN E = DOMAIN db
          /\ \A k \in DOMAIN db : E[k] = db[k] \/ E[k] = [Stamped(db[k], c) EXCEPT !.deleted = day]
      OBVIOUS
    <3>2. Handled(c).db = E
      BY <1>5, <2>1 DEF Handled, Delete, AppliedAs, Verdict
    <3>. HIDE DEF E
    <3>. QED BY <1>4, <3>1, <3>2
  <2>2. CASE ~Owned(c)
    BY <1>1, <1>5, <2>2 DEF Handled, Delete, Rejected, Verdict
  <2>. QED BY <2>1, <2>2
<1>6. CASE c.verb = "close"
  <2>1. CASE Owned(c)
    <3>. DEFINE E == [db EXCEPT ![c.key] = [Stamped(@, c) EXCEPT !.status = c.status, !.resolved = day]]
    <3>1. /\ DOMAIN E = DOMAIN db
          /\ \A k \in DOMAIN db :
               \/ E[k] = db[k]
               \/ E[k] = [Stamped(db[k], c) EXCEPT !.status = c.status, !.resolved = day]
      OBVIOUS
    <3>2. Handled(c).db = E
      BY <1>6, <2>1 DEF Handled, CloseItem, AppliedAs, Verdict
    <3>. HIDE DEF E
    <3>. QED BY <1>4, <3>1, <3>2
  <2>2. CASE ~Owned(c)
    BY <1>1, <1>6, <2>2 DEF Handled, CloseItem, Rejected, Verdict
  <2>. QED BY <2>1, <2>2
<1>7. CASE c.verb = "soft_delete"
  <2>. DEFINE nodes == IF Live(db[c.key]) THEN Subtree(c.key) ELSE {}
              steps == {k \in RowsOf(db, "task_steps") : Live(db[k]) /\ db[k].task \in nodes}
              E == [k \in DOMAIN db |-> IF k \in nodes \union steps
                      THEN [Stamped(db[k], c) EXCEPT !.deleted = day] ELSE db[k]]
  <2>1. Handled(c).db \in {db, E}
    BY <1>7 DEF Handled, SoftDelete, AppliedAs, Rejected, Verdict
  <2>. HIDE DEF nodes, steps
  <2>2. /\ DOMAIN E = DOMAIN db
        /\ \A k \in DOMAIN db : E[k] = db[k] \/ E[k] = [Stamped(db[k], c) EXCEPT !.deleted = day]
    OBVIOUS
  <2>. HIDE DEF E
  <2>3. Fine(E)
    BY <1>4, <2>2
  <2>. HIDE DEF Fine
  <2>4. Fine(Handled(c).db)
    BY <1>1, <2>1, <2>3
  <2>. QED BY <2>4 DEF Fine
<1>. QED BY <1>3, <1>5, <1>6, <1>7

\* A device's command keeps the rows sound.
LEMMA UploadSound ==
  ASSUME Facts, day \in Int, Sound(db), NEW d \in DOMAIN queue, Upload(d)
  PROVE  Sound(db') /\ Owners(db, db')
<1>. DEFINE c == Scripts[d][queue[d] + 1]
<1>1. plan \in Plans /\ d \in DOMAIN plan.scripts /\ queue[d] \in Nat
  BY DEF Facts
<1>2. queue[d] + 1 \in 1 .. Len(plan.scripts[d])
  <2>1. queue[d] < Len(plan.scripts[d]) /\ Len(plan.scripts[d]) \in Nat
    BY <1>1, UpkeepAssumption DEF Upload, Scripts
  <2>. QED BY <1>1, <2>1
<1>3. /\ c.verb \in {"create", "delete", "soft_delete", "close"}
      /\ Table(c.key) \notin {"computed_aggregates", "user_settings"}
      /\ c.verb = "create" => FitsSchema(c.key, c.row)
  BY <1>1, <1>2, UpkeepAssumption DEF Scripts
<1>4. c \in Commands
  <2>1. DOMAIN plan.scripts[d] = 1 .. Len(plan.scripts[d])
    BY <1>1, UpkeepAssumption
  <2>2. c \in ToSet(plan.scripts[d])
    BY <1>2, <2>1 DEF Scripts, ToSet
  <2>. QED BY <1>1, <2>2 DEF Commands, CommandsOf
<1>. HIDE DEF c
<1>5. db' \in {db, Handled(c).db}
  BY DEF Upload, Judge, c
<1>6. Sound(Handled(c).db) /\ Owners(db, Handled(c).db)
  BY <1>1, <1>3, <1>4, HandledSound
<1>. QED BY <1>5, <1>6, SameSound

\* The warning of an import is the account's own row.
LEMMA WarningSound ==
  ASSUME NEW D, Sound(D), Ours(D, Warning), NEW warned
  PROVE  Sound(WithWarning(D, warned)) /\ Grown(D, WithWarning(D, warned))
<1>. DEFINE row == [user |-> plan.user, deleted |-> None, updated |-> day, hlc |-> 0,
                    source |-> "server_job", status |-> "open", resolved |-> None]
<1>1. Table(Warning) = "sync_review_items"
  BY DEF Table, Warning
<1>2. /\ "sync_review_items" \in ToSet(Registry) \ {"command_log"}
      /\ "sync_review_items" \notin DOMAIN ForeignKeys /\ "sync_review_items" \notin DOMAIN UniqueColumns
  <2>1. Registry[22] = "sync_review_items" /\ 22 \in DOMAIN Registry
    BY DEF Registry
  <2>2. "sync_review_items" \in ToSet(Registry)
    BY <2>1 DEF ToSet
  <2>. QED BY <2>2 DEF ForeignKeys, UniqueColumns
<1>3. RowOK(Warning, row)
  BY <1>1, <1>2 DEF RowOK, FitsSchema, Agg
<1>4. References(Warning, row) = {} /\ ~Clashes(D, Warning, row)
  BY <1>1, <1>2 DEF References, Clashes, Rival
<1>5. row.user = plan.user
  OBVIOUS
<1>6. WithWarning(D, warned) \in {D, Put(D, Warning, row)}
  BY DEF WithWarning
<1>. HIDE DEF row
<1>7. Sound(Put(D, Warning, row)) /\ Grown(D, Put(D, Warning, row))
  BY <1>3, <1>4, <1>5, PutSound DEF Storable
<1>. QED BY <1>6, <1>7, SameSound

\* Rows expire, go, or get the warning of a dry run.
LEMMA JobsSound ==
  ASSUME day \in Int, Sound(db), Expire \/ PurgeRows \/ DryRun
  PROVE  Sound(db') /\ Owners(db, db')
<1>1. \A k \in DOMAIN db : {"user", "deleted", "updated", "hlc", "source"} \subseteq DOMAIN db[k]
  BY DEF Sound, RowOK, FitsSchema
<1>2. CASE Expire
  <2>. DEFINE E == Expired(db, day)
  <2>1. /\ DOMAIN E = DOMAIN db
        /\ \A k \in DOMAIN db : E[k] = db[k] \/ E[k] = [db[k] EXCEPT !.deleted = day, !.updated = day]
    BY DEF Expired
  <2>2. db' = E
    BY <1>2 DEF Expire
  <2>. HIDE DEF E
  <2>3. \A k \in DOMAIN db : Marked(db[k], E[k])
    BY <1>1, <2>1, Marking
  <2>4. Faded(db, E)
    BY <2>1, <2>3 DEF Faded
  <2>. QED BY <2>2, <2>4, FadedSound
<1>3. CASE PurgeRows
  <2>. DEFINE keys == Reclaiming
              E == Without(db, keys)
  <2>1. db' = db \/ (db' = E /\ Deletable(db, keys))
    BY <1>3 DEF PurgeRows
  <2>. HIDE DEF keys
  <2>2. DOMAIN E = DOMAIN db \ keys /\ \A k \in DOMAIN E : E[k] = db[k]
    BY DEF Without, Restrict
  <2>. HIDE DEF E
  <2>3. ASSUME Deletable(db, keys) PROVE Faded(db, E)
    <3>1. \A k \in DOMAIN E : Marked(db[k], E[k])
      BY <2>2 DEF Marked
    <3>2. \A k \in DOMAIN E : References(k, db[k]) \cap keys = {}
      BY <2>2, <2>3 DEF Deletable
    <3>. QED BY <2>2, <3>1, <3>2 DEF Faded
  <2>. QED BY <2>1, <2>3, FadedSound, SameSound
<1>4. CASE DryRun
  <2>1. /\ Ours(db, Warning)
        /\ db' = WithWarning(db, WouldCollide(db, backup.rows, plan.user) # {})
    BY <1>4 DEF DryRun, Ours
  <2>. QED BY <2>1, WarningSound DEF Grown
<1>. QED BY <1>2, <1>3, <1>4

\* An import so far, of a file into these rows.
Taken(s, from) == Importing(s) /\ Sound(s.db) /\ Grown(from, s.db)

\* Two imports one after the other.
LEMMA TakenTwice ==
  ASSUME NEW from, NEW s, Taken(s, from), NEW t, Taken(t, s.db)
  PROVE  Taken(t, from)
BY DEF Taken, Grown, Owners

\* A row of the file.
LEMMA RowTaken ==
  ASSUME NEW s, Importing(s), Sound(s.db), NEW rows, FileOf(s.db, rows),
         NEW key \in DOMAIN rows, NEW before
  PROVE  Taken(RestoreRow(s, before, key, Imported(rows[key], plan.user), plan.user), s.db)
<1>. DEFINE row == Imported(rows[key], plan.user)
            t == RestoreRow(s, before, key, row, plan.user)
<1>1. /\ RowOK(key, rows[key]) /\ rows[key].user = plan.user
      /\ Ours(s.db, key) /\ \A r \in References(key, rows[key]) : Ours(s.db, r)
  BY DEF FileOf
<1>2. {"user", "source"} \subseteq DOMAIN rows[key] /\ "deleted" \in DOMAIN rows[key]
  BY <1>1 DEF RowOK, FitsSchema
<1>3. Marked(rows[key], row)
  <2>1. /\ DOMAIN row = DOMAIN rows[key] /\ row.user = plan.user
        /\ \A c \in DOMAIN rows[key] \ {"user", "source"} : row[c] = rows[key][c]
    BY <1>2, ImportedColumns
  <2>. HIDE DEF row
  <2>. QED BY <1>1, <1>2, <2>1 DEF Marked, Marks, Live
<1>. HIDE DEF row
<1>4. RowOK(key, row) /\ row.user = plan.user /\ References(key, row) = References(key, rows[key])
  BY <1>1, <1>3, MarkedRow
<1>5. Storable(s.db, key, row) => Sound(Put(s.db, key, row)) /\ Grown(s.db, Put(s.db, key, row))
  BY <1>1, <1>4, PutSound
<1>6. \/ t = s
      \/ t = [s EXCEPT !.conflicts = @ \union {key}]
      \/ t = [s EXCEPT !.ok = FALSE]
      \/ /\ Storable(s.db, key, row)
         /\ t = [s EXCEPT !.db = Put(@, key, row),
                   !.conflicts = IF key \in DOMAIN before THEN @ \union {key} ELSE @]
  BY DEF RestoreRow
<1>. HIDE DEF t
<1>7. Importing(t) /\ (t.db = s.db \/ (Storable(s.db, key, row) /\ t.db = Put(s.db, key, row)))
  BY <1>6 DEF Importing
<1>8. Sound(t.db) /\ Grown(s.db, t.db)
  BY <1>5, <1>7, SameSound
<1>. QED BY <1>7, <1>8 DEF Taken, t, row

\* A table of the file.
LEMMA TableTaken ==
  ASSUME NEW s, Importing(s), Sound(s.db), NEW rows, FileOf(s.db, rows), IsFiniteSet(DOMAIN rows)
  PROVE  Taken(RestoreTable(s, rows, plan.user), s.db)
<1>. DEFINE N == Cardinality(DOMAIN rows)
            Going(l) == l.left \subseteq DOMAIN rows /\ Taken(l.state, s.db)
<1>1. N \in Nat
  BY FS_CardinalityType
<1>2. PICK loop :
        /\ loop[0] = [left |-> DOMAIN rows, state |-> s]
        /\ \A n \in Nat : n < N => loop[n + 1] = RestoreRound(rows, s.db, plan.user, loop[n])
        /\ RestoreTable(s, rows, plan.user) = loop[N].state
  BY TableLoop
<1>3. Going(loop[0])
  <2>1. Taken(s, s.db)
    BY SameSound DEF Taken
  <2>. QED BY <1>2, <2>1
<1>4. ASSUME NEW l, Going(l) PROVE Going(RestoreRound(rows, s.db, plan.user, l))
  <2>1. CASE l.left = {}
    BY <1>4, <2>1 DEF RestoreRound
  <2>2. CASE l.left # {}
    <3>. DEFINE key == NextRow(rows, l.left)
                row == Imported(rows[key], plan.user)
                t == RestoreRow(l.state, s.db, key, row, plan.user)
    <3>1. key \in l.left /\ key \in DOMAIN rows
      BY <1>4, <2>2, NextLeft
    <3>2. RestoreRound(rows, s.db, plan.user, l) = [left |-> l.left \ {key}, state |-> t]
      BY <2>2 DEF RestoreRound
    <3>. HIDE DEF key
    <3>3. Importing(l.state) /\ Sound(l.state.db) /\ FileOf(l.state.db, rows)
      BY <1>4, FileKept DEF Taken, Grown
    <3>4. Taken(t, l.state.db)
      BY <3>1, <3>3, RowTaken
    <3>. HIDE DEF t
    <3>5. Taken(t, s.db)
      BY <1>4, <3>4, TakenTwice
    <3>. QED BY <1>4, <3>2, <3>5
  <2>. QED BY <2>1, <2>2
<1>5. Going(loop[N])
  <2>. DEFINE U == {n \in Nat : Going(loop[n])}
  <2>. HIDE DEF Going
  <2>1. 0 \in U
    BY <1>3
  <2>2. ASSUME NEW n \in Nat, n < N /\ n \in U PROVE n + 1 \in U
    BY <1>2, <1>4, <2>2
  <2>. HIDE DEF U, N
  <2>3. N \in U
    BY <1>1, <2>1, <2>2, Reached
  <2>. QED BY <2>3 DEF U
<1>. HIDE DEF N
<1>. QED BY <1>2, <1>5

\* All tables of the file.
LEMMA TablesTaken ==
  ASSUME NEW from, Sound(from), NEW rows, FileOf(from, rows), IsFiniteSet(DOMAIN rows)
  PROVE  \E t : Taken(t, from) /\ RestoreRows(from, rows, plan.user) = RestoreSettings(t, rows, plan.user)
<1>. DEFINE N == Len(RestoreOrder)
            start == [db |-> from, ok |-> TRUE, conflicts |-> {}]
            table(s, n) == RestoreTable(s, Restrict(rows, RowsOf(rows, RestoreOrder[n])), plan.user)
<1>1. N \in Nat
  BY DEF RestoreOrder
<1>2. PICK after : /\ after[0] = start
                   /\ \A n \in Nat : n < N => after[n + 1] = table(after[n], n + 1)
                   /\ RestoreRows(from, rows, plan.user) = RestoreSettings(after[N], rows, plan.user)
  BY TablesLoop
<1>3. Taken(after[0], from)
  <2>1. Importing(start) /\ start.db = from
    BY DEF Importing
  <2>. HIDE DEF start, N, table
  <2>. QED BY <1>2, <2>1, SameSound DEF Taken
<1>4. ASSUME NEW s, Taken(s, from), NEW n PROVE Taken(table(s, n), from)
  <2>. DEFINE some == Restrict(rows, RowsOf(rows, RestoreOrder[n]))
  <2>1. DOMAIN some \in SUBSET DOMAIN rows /\ \A k \in DOMAIN some : some[k] = rows[k]
    BY DEF Restrict, RowsOf
  <2>. HIDE DEF some
  <2>2. IsFiniteSet(DOMAIN some)
    BY <2>1, FS_Subset
  <2>3. FileOf(s.db, rows)
    BY <1>4, FileKept DEF Taken, Grown
  <2>4. FileOf(s.db, some)
    BY <2>1, <2>3 DEF FileOf
  <2>5. Taken(RestoreTable(s, some, plan.user), s.db)
    BY <1>4, <2>2, <2>4, TableTaken DEF Taken
  <2>6. Taken(RestoreTable(s, some, plan.user), from)
    BY <1>4, <2>5, TakenTwice
  <2>. QED BY <2>6 DEF some
<1>5. Taken(after[N], from)
  <2>. DEFINE U == {n \in Nat : Taken(after[n], from)}
  <2>. HIDE DEF table, N, start
  <2>1. 0 \in U
    BY <1>3
  <2>2. ASSUME NEW n \in Nat, n < N /\ n \in U PROVE n + 1 \in U
    BY <1>2, <1>4, <2>2
  <2>. HIDE DEF U
  <2>3. N \in U
    BY <1>1, <2>1, <2>2, Reached
  <2>. QED BY <2>3 DEF U
<1>. HIDE DEF N, table, start
<1>. QED BY <1>2, <1>5

\* An import keeps the rows sound.
LEMMA RestoredSound ==
  ASSUME NEW from, Sound(from), NEW known, NEW file, FileOf(from, file.rows), IsFiniteSet(DOMAIN file.rows)
  PROVE  LET to == Restored(from, known, file, plan.user).db
         IN  Sound(to) /\ Grown(from, to)
<1>. DEFINE rows == file.rows
            mine == <<"user_settings", plan.user>>
            done == RestoreRows(from, rows, plan.user)
            Fine(D) == Sound(D) /\ Grown(from, D)
<1>1. PICK t : Taken(t, from) /\ done = RestoreSettings(t, rows, plan.user)
  BY TablesTaken
<1>2. Importing(t) /\ Sound(t.db) /\ Grown(from, t.db) /\ FileOf(t.db, rows)
  BY <1>1, FileKept DEF Taken, Grown
<1>3. Fine(done.db)
  <2>. DEFINE S == CHOOSE k \in RowsOf(rows, "user_settings") : TRUE
              row == [rows[S] EXCEPT !.user = plan.user]
  <2>1. \/ done \in {t, [t EXCEPT !.conflicts = @ \union {mine}]}
        \/ RowsOf(rows, "user_settings") # {} /\ done = [t EXCEPT !.db = Put(@, mine, row)]
    BY <1>1 DEF RestoreSettings
  <2>. HIDE DEF S, row, done, mine
  <2>2. \/ done.db = t.db
        \/ RowsOf(rows, "user_settings") # {} /\ done.db = Put(t.db, mine, row)
    BY <1>2, <2>1 DEF Importing
  <2>3. ASSUME RowsOf(rows, "user_settings") # {} PROVE Fine(Put(t.db, mine, row))
    <3>1. S \in DOMAIN rows /\ Table(S) = "user_settings"
      <4>1. S \in RowsOf(rows, "user_settings")
        BY <2>3 DEF S
      <4>. QED BY <4>1 DEF RowsOf
    <3>2. RowOK(S, rows[S]) /\ rows[S].user = plan.user
      BY <1>2, <3>1 DEF FileOf
    <3>3. S = mine
      BY <3>1, <3>2 DEF RowOK, FitsSchema, mine
    <3>4. Marked(rows[S], row) /\ row.user = plan.user
      <4>1. "user" \in DOMAIN rows[S]
        BY <3>2 DEF RowOK, FitsSchema
      <4>2. DOMAIN row = DOMAIN rows[S] /\ \A c \in DOMAIN row : row[c] = rows[S][c]
        BY <3>2, <4>1 DEF row
      <4>3. "deleted" \in DOMAIN rows[S]
        BY <3>2 DEF RowOK, FitsSchema
      <4>. QED BY <3>2, <4>1, <4>2, <4>3 DEF Marked, Live
    <3>5. RowOK(mine, row)
      BY <3>2, <3>3, <3>4, MarkedRow
    <3>6. References(mine, row) = {} /\ ~Clashes(t.db, mine, row)
      <4>1. "user_settings" \notin DOMAIN ForeignKeys /\ "user_settings" \notin DOMAIN UniqueColumns
        BY DEF ForeignKeys, UniqueColumns
      <4>. QED BY <3>1, <3>3, <4>1 DEF References, Clashes, Rival
    <3>7. Ours(t.db, mine)
      BY <1>2, <3>1, <3>3 DEF FileOf
    <3>8. Sound(Put(t.db, mine, row)) /\ Grown(t.db, Put(t.db, mine, row))
      BY <1>2, <3>4, <3>5, <3>6, <3>7, PutSound DEF Storable
    <3>. QED BY <1>2, <3>8 DEF Grown, Owners
  <2>. HIDE DEF Fine
  <2>4. Fine(t.db)
    BY <1>2 DEF Fine
  <2>. QED BY <2>2, <2>3, <2>4
<1>4. Fine(from)
  BY SameSound
<1>5. Restored(from, known, file, plan.user).db \in {from, done.db}
  BY DEF Restored
<1>. HIDE DEF Fine, done
<1>6. Fine(Restored(from, known, file, plan.user).db)
  BY <1>3, <1>4, <1>5
<1>. QED BY <1>6 DEF Fine

\* An import and its warning keep the rows sound.
LEMMA ImportSound ==
  ASSUME Facts, Sound(db), FileOf(db, backup.rows), Import
  PROVE  Sound(db') /\ Grown(db, db')
<1>. DEFINE done == Restored(db, log, backup, plan.user)
<1>1. Sound(done.db) /\ Grown(db, done.db)
  BY RestoredSound DEF Facts
<1>2. db' = WithWarning(done.db, done.warned) /\ Warning \notin DOMAIN db
  BY DEF Import
<1>. HIDE DEF done
<1>3. Ours(done.db, Warning)
  BY <1>1, <1>2 DEF Grown, Owners, Ours
<1>4. Sound(db') /\ Grown(done.db, db')
  BY <1>1, <1>2, <1>3, WarningSound
<1>. QED BY <1>1, <1>4 DEF Grown, Owners

\* A run keeps the rows sound: an aggregate is kept under what it measures.
LEMMA StoreSound ==
  ASSUME Sound(db), NEW r \in {1, 2}, StoreAggregates(r)
  PROVE  Sound(db') /\ Owners(db, db')
<1>. DEFINE run == runs[r]
            computed == Computed(run)
            E == Upserted(run, computed)
            A == "computed_aggregates"
<1>1. db' \in {db, E}
  BY DEF StoreAggregates
<1>2. ASSUME NEW k \in DOMAIN computed
      PROVE  RowOK(k, computed[k]) /\ computed[k].user = plan.user /\ Agg(k)
  <2>1. PICK m \in Measured(run.view) : k = Aggregate(m[1], m[2])
    BY DEF Computed
  <2>2. Agg(k) /\ k = <<A, <<m[1], m[2]>>>> /\ k[2][1] = m[1] /\ k[2][2] = m[2]
    BY <2>1 DEF Aggregate, Agg, Table
  <2>3. /\ computed[k].user = plan.user /\ computed[k].subject = k[2][1] /\ computed[k].metric = k[2][2]
        /\ {"user", "deleted", "updated", "hlc", "source", "subject", "metric"} \subseteq DOMAIN computed[k]
    BY DEF Computed
  <2>4. /\ A \in ToSet(Registry) \ {"command_log"} /\ A \notin DOMAIN ForeignKeys
        /\ UniqueColumns[A] = {"user", "subject", "metric"}
    <3>1. Registry[18] = A /\ 18 \in DOMAIN Registry
      BY DEF Registry
    <3>. QED BY <3>1 DEF ToSet, ForeignKeys, UniqueColumns
  <2>. HIDE DEF computed
  <2>5. FitsSchema(k, computed[k])
    BY <2>2, <2>3, <2>4 DEF FitsSchema, Agg
  <2>6. k = Aggregate(computed[k].subject, computed[k].metric)
    BY <2>1, <2>2, <2>3
  <2>. QED BY <2>2, <2>3, <2>5, <2>6 DEF RowOK, Agg
<1>. HIDE DEF computed
<1>3. /\ DOMAIN E = DOMAIN db \cup DOMAIN computed
      /\ \A k \in DOMAIN E : \/ k \in DOMAIN computed /\ E[k] = computed[k]
                             \/ k \in DOMAIN db /\ E[k] = db[k]
      /\ \A k \in DOMAIN E : ~Agg(k) => k \in DOMAIN db /\ E[k] = db[k]
  BY <1>2 DEF Upserted
<1>. HIDE DEF E
<1>4. ASSUME NEW k \in DOMAIN E PROVE RowOK(k, E[k]) /\ (Agg(k) => E[k].user = plan.user)
  BY <1>2, <1>3 DEF Sound
<1>5. Owners(db, E)
  <2>1. ASSUME NEW k \in DOMAIN E PROVE E[k].user = IF k \in DOMAIN db THEN db[k].user ELSE plan.user
    <3>1. CASE Agg(k)
      BY <1>3, <1>4, <3>1 DEF Sound
    <3>2. CASE ~Agg(k)
      BY <1>3, <3>2
    <3>. QED BY <3>1, <3>2
  <2>. QED BY <2>1 DEF Owners
<1>6. ASSUME NEW k \in DOMAIN E, E[k].user = plan.user, NEW q \in References(k, E[k])
      PROVE  q \in DOMAIN E /\ E[q].user = plan.user
  <2>1. ~Agg(k)
    BY <1>6 DEF References, ForeignKeys, Agg
  <2>2. q \in DOMAIN db /\ db[q].user = plan.user
    BY <1>3, <1>6, <2>1 DEF Sound
  <2>. QED BY <1>3, <1>5, <2>2 DEF Owners
<1>7. ASSUME NEW k \in DOMAIN E, E[k].user = plan.user,
             NEW o \in DOMAIN E, E[o].user = plan.user, Rival(E, k, E[k], o)
      PROVE  FALSE
  <2>1. CASE Agg(k)
    <3>1. Agg(o) /\ o # k
      BY <1>7, <2>1 DEF Rival, Agg
    <3>2. E[o].subject = E[k].subject /\ E[o].metric = E[k].metric
      <4>1. {"subject", "metric"} \subseteq UniqueColumns[A]
        BY DEF UniqueColumns
      <4>. QED BY <1>7, <2>1, <4>1 DEF Rival, Agg
    <3>3. k = Aggregate(E[k].subject, E[k].metric) /\ o = Aggregate(E[o].subject, E[o].metric)
      BY <1>4, <2>1, <3>1 DEF RowOK
    <3>. QED BY <3>1, <3>2, <3>3
  <2>2. CASE ~Agg(k)
    <3>1. ~Agg(o)
      BY <1>7, <2>2 DEF Rival, Agg
    <3>2. k \in DOMAIN db /\ o \in DOMAIN db /\ E[k] = db[k] /\ E[o] = db[o]
      BY <1>3, <2>2, <3>1
    <3>3. Rival(db, k, db[k], o)
      BY <1>7, <3>2 DEF Rival
    <3>. QED BY <1>7, <3>2, <3>3 DEF Sound
  <2>. QED BY <2>1, <2>2
<1>8. Sound(E)
  BY <1>4, <1>6, <1>7 DEF Sound
<1>. QED BY <1>1, <1>5, <1>8, SameSound

\* No step makes the rows unsound or hands one to another account.
LEMMA RowsSound ==
  ASSUME Facts, day \in Int, Sound(db), FileOf(db, backup.rows), [Next]_vars
  PROVE  Sound(db') /\ Owners(db, db')
<1>1. CASE \E d \in DOMAIN queue : Upload(d)
  BY <1>1, UploadSound
<1>2. CASE Expire \/ PurgeRows \/ DryRun
  BY <1>2, JobsSound
<1>3. CASE Import
  BY <1>3, ImportSound DEF Grown
<1>4. CASE \E r \in {1, 2} : StoreAggregates(r)
  BY <1>4, StoreSound
<1>5. CASE db' = db
  BY <1>5, SameSound
<1>6. CASE \/ NextDay \/ StartPurge \/ PurgeLog \/ BackupTable
           \/ \E r \in {1, 2} : StartRecompute(r) \/ ReadSnapshot(r)
           \/ UNCHANGED vars
  BY <1>5, <1>6 DEF NextDay, StartPurge, PurgeLog, BackupTable, StartRecompute, ReadSnapshot, vars
<1>. QED BY <1>1, <1>2, <1>3, <1>4, <1>6 DEF Next

\* An export of sound rows is a file of the account and stays one.
LEMMA FileSound ==
  ASSUME Facts, Sound(db), FileOf(db, backup.rows), Owners(db, db'), [Next]_vars
  PROVE  FileOf(db', backup'.rows)
<1>1. DOMAIN backup = {"next", "rows", "history"}
  BY DEF Facts
<1>2. CASE backup' = backup
  BY <1>2, FileKept
<1>3. CASE BackupTable
  <2>. DEFINE table == Registry[NextTable]
              read == ReadTable(db, table, plan.user)
              joined == Joined(read, backup.rows)
  <2>1. \A k \in DOMAIN read : k \in DOMAIN db /\ read[k] = db[k] /\ db[k].user = plan.user
    BY DEF ReadTable, Restrict, RowsOf
  <2>2. \/ backup' = [backup EXCEPT !.next = NextTable + 1, !.history = log]
        \/ backup' = [backup EXCEPT !.next = NextTable + 1, !.rows = joined]
    BY <1>3 DEF BackupTable
  <2>. HIDE DEF read, table
  <2>3. \A k \in DOMAIN joined : \/ k \in DOMAIN read /\ joined[k] = read[k]
                                 \/ k \in DOMAIN backup.rows /\ joined[k] = backup.rows[k]
    BY DEF Joined
  <2>. HIDE DEF joined
  <2>4. FileOf(db, joined)
    <3>1. ASSUME NEW k \in DOMAIN read
          PROVE  /\ RowOK(k, read[k]) /\ read[k].user = plan.user
                 /\ Ours(db, k) /\ \A q \in References(k, read[k]) : Ours(db, q)
      BY <2>1 DEF Sound, Ours
    <3>. QED BY <2>3, <3>1 DEF FileOf
  <2>5. backup'.rows \in {backup.rows, joined}
    BY <1>1, <2>2, BackupFields
  <2>. QED BY <2>4, <2>5, FileKept
<1>4. CASE backup' = Filed
  <2>1. backup'.rows \in {backup.rows, << >>}
    BY <1>1, <1>4, BackupFields DEF Filed
  <2>2. FileOf(db', << >>)
    <3>1. DOMAIN << >> = {}
      OBVIOUS
    <3>. QED BY <3>1 DEF FileOf
  <2>. QED BY <2>1, <2>2, FileKept
<1>5. backup' = backup \/ BackupTable \/ backup' = Filed
  BY DEF Next, vars, Upload, NextDay, Expire, StartPurge, PurgeRows, PurgeLog, DryRun, Import,
         StartRecompute, ReadSnapshot, StoreAggregates
<1>. QED BY <1>2, <1>3, <1>4, <1>5

\* The log is a function of commands.
IsLog(L) == L = [c \in DOMAIN L |-> L[c]]

\* Verdicts join the log, are forgotten, or come back from an export.
LEMMA LogSound ==
  ASSUME IsLog(log), [Next]_vars
  PROVE  IsLog(log')
<1>1. CASE log' = log
  BY <1>1 DEF IsLog
<1>2. CASE \E d \in DOMAIN queue : Upload(d)
  <2>1. PICK d \in DOMAIN queue : Upload(d)
    BY <1>2
  <2>. DEFINE c == Scripts[d][queue[d] + 1]
  <2>2. CASE c.id \in DOMAIN log
    BY <1>1, <2>1, <2>2 DEF Upload
  <2>3. CASE c.id \notin DOMAIN log
    <3>1. PICK verdict \in {Handled(c)} : Judge(c, verdict)
      BY <2>1, <2>3 DEF Upload
    <3>. HIDE DEF c
    <3>. QED BY <3>1 DEF Judge, IsLog
  <2>. QED BY <2>2, <2>3
<1>3. CASE PurgeLog
  BY <1>3 DEF PurgeLog, Remembered, Restrict, IsLog
<1>4. CASE Import
  <2>1. log' \in {log, RestoreHistory(log, backup.history)}
    BY <1>4 DEF Import, Restored
  <2>2. IsLog(RestoreHistory(log, backup.history))
    BY DEF RestoreHistory, IsLog
  <2>. QED BY <1>1, <2>1, <2>2
<1>5. CASE \/ NextDay \/ Expire \/ StartPurge \/ PurgeRows \/ BackupTable \/ DryRun
           \/ \E r \in {1, 2} : StartRecompute(r) \/ ReadSnapshot(r) \/ StoreAggregates(r)
           \/ UNCHANGED vars
  BY <1>1, <1>5 DEF NextDay, Expire, StartPurge, PurgeRows, BackupTable, DryRun,
                    StartRecompute, ReadSnapshot, StoreAggregates, vars
<1>. QED BY <1>2, <1>3, <1>4, <1>5 DEF Next

\* The rows are sound, and what was exported of them is the account's.
SoundRows ==
  /\ Sound(db)
  /\ FileOf(db, backup.rows)
  /\ IsLog(log)

\* The rows of the plan are sound, and nothing is exported or logged yet.
LEMMA SoundInit == Init => SoundRows
<1>. SUFFICES ASSUME Init PROVE SoundRows
  OBVIOUS
<1>1. plan \in Plans /\ db = plan.rows /\ backup = [next |-> 1, rows |-> << >>, history |-> << >>] /\ log = << >>
  BY DEF Init
<1>2. ASSUME NEW k \in DOMAIN db
      PROVE  /\ FitsSchema(k, db[k]) /\ ~Agg(k) /\ Storable(db, k, db[k])
             /\ db[k].user = plan.user => \A r \in References(k, db[k]) : db[r].user = plan.user
  BY <1>1, UpkeepAssumption DEF Agg
<1>3. ASSUME NEW k \in DOMAIN db PROVE RowOK(k, db[k])
  <2>1. Table(k) = "nodes" => <<k, db[k].parent>> \in Parents(plan)
    BY <1>1 DEF Parents, RowsOf
  <2>. QED BY <1>2, <2>1 DEF RowOK
<1>4. Sound(db)
  BY <1>2, <1>3 DEF Sound, Storable, Clashes
<1>5. FileOf(db, backup.rows)
  <2>1. backup.rows = << >> /\ DOMAIN << >> = {}
    BY <1>1
  <2>. QED BY <2>1 DEF FileOf
<1>6. IsLog(log)
  BY <1>1 DEF IsLog
<1>. QED BY <1>4, <1>5, <1>6 DEF SoundRows

\* Every step keeps the rows sound.
LEMMA SoundStep == Facts /\ Verdicts /\ SoundRows /\ [Next]_vars => SoundRows'
<1>. SUFFICES ASSUME Facts, Verdicts, SoundRows, [Next]_vars PROVE SoundRows'
  OBVIOUS
<1>1. plan' = plan
  BY DEF Next, vars, Upload, NextDay, Expire, StartPurge, PurgeRows, PurgeLog, BackupTable, DryRun,
         Import, StartRecompute, ReadSnapshot, StoreAggregates
<1>2. Sound(db') /\ Owners(db, db')
  BY RowsSound DEF SoundRows, Verdicts
<1>3. FileOf(db', backup'.rows) /\ IsLog(log')
  BY <1>2, FileSound, LogSound DEF SoundRows
<1>4. \A k, row : RowOK(k, row)' <=> RowOK(k, row)
  BY <1>1 DEF RowOK
<1>5. Sound(db)'
  BY <1>1, <1>2, <1>4 DEF Sound, RowOK
<1>6. FileOf(db, backup.rows)'
  BY <1>1, <1>3, <1>4 DEF FileOf, RowOK, Ours
<1>7. IsLog(log)'
  BY <1>3 DEF IsLog
<1>. QED BY <1>5, <1>6, <1>7 DEF SoundRows

\* Whatever devices, jobs, exports and imports do, every row fits the schema,
\* the rows of the account reference rows of the account that are there, nodes
\* were minted under their parents, no two live rows share a natural key, and
\* an export of any moments holds the account's own rows only.
THEOREM RowsStaySound == Spec => []SoundRows
BY SoundInit, SoundStep, VerdictsKept, FactsKept, PTL DEF Spec

\* At every moment an export read at once restores completely into an empty
\* account of another user: nothing is refused, no row is lost but the steps of
\* checklists, every column keeps its value, and the log comes back.
THEOREM ExportsRestore == Spec => []RoundTrip
<1>1. Facts /\ SoundRows => RoundTrip
  BY SoundRoundTrips DEF SoundRows, IsLog
<1>. QED BY <1>1, RowsStaySound, FactsKept, PTL

-----------------------------------------------------------------------------
(* The archive of the journal.                                                *)

\* All the rows of an account in a table.
Mine(rows, user, table) ==
  [k \in {k \in RowsOf(rows, table) : rows[k].user = user} |-> rows[k]]

\* The rows the server selects hold for each day what all rows of the account do.
LEMMA SelectionsAgree ==
  ASSUME NEW rows, NEW user, NEW date
  PROVE  ComputeDayLog(SelectedNodes(rows, user), SelectedBlocks(rows, user), date)
           = ComputeDayLog(Mine(rows, user, "nodes"), Mine(rows, user, "schedule_blocks"), date)
<1>. DEFINE N == Mine(rows, user, "nodes")
            B == Mine(rows, user, "schedule_blocks")
            n == SelectedNodes(rows, user)
            b == SelectedBlocks(rows, user)
<1>1. /\ DOMAIN N = {k \in RowsOf(rows, "nodes") : rows[k].user = user}
      /\ \A k \in DOMAIN N : N[k] = rows[k]
  BY DEF Mine
<1>2. /\ DOMAIN B = {k \in RowsOf(rows, "schedule_blocks") : rows[k].user = user}
      /\ \A k \in DOMAIN B : B[k] = rows[k]
  BY DEF Mine
<1>3. /\ DOMAIN b = {k \in DOMAIN B : Logged(B[k])}
      /\ \A k \in DOMAIN b : b[k] = B[k]
  BY <1>2 DEF SelectedBlocks, Mine
<1>4. /\ DOMAIN n = {k \in DOMAIN N : /\ N[k].deleted = None
                                      /\ N[k].done # None \/ \E c \in DOMAIN b : b[c].task = k}
      /\ \A k \in DOMAIN n : n[k] = N[k]
  <2>1. \A c \in DOMAIN b : b[c] = rows[c]
    BY DEF SelectedBlocks
  <2>. HIDE DEF b, N
  <2>. QED BY <1>1, <2>1 DEF SelectedNodes, LiveRows, Live, b
<1>. HIDE DEF N, B, n, b
<1>5. ASSUME NEW c \in DOMAIN B PROVE c \in ScheduledOn(n, b, date) <=> c \in ScheduledOn(N, B, date)
  <2>1. CASE ~Logged(B[c])
    BY <1>3, <2>1 DEF ScheduledOn
  <2>2. CASE Logged(B[c])
    <3>1. c \in DOMAIN b /\ b[c] = B[c]
      BY <1>3, <2>2
    <3>2. /\ B[c].task \in DOMAIN n /\ n[B[c].task].deleted = None
          <=> B[c].task \in DOMAIN N /\ N[B[c].task].deleted = None
      BY <1>4, <3>1
    <3>. QED BY <3>1, <3>2 DEF ScheduledOn
  <2>. QED BY <2>1, <2>2
<1>6. ScheduledOn(n, b, date) = ScheduledOn(N, B, date)
  <2>1. ScheduledOn(n, b, date) \subseteq DOMAIN B /\ ScheduledOn(N, B, date) \subseteq DOMAIN B
    BY <1>3 DEF ScheduledOn
  <2>. QED BY <1>5, <2>1
<1>7. CompletedOn(n, date) = CompletedOn(N, date)
  BY <1>4 DEF CompletedOn
<1>8. ASSUME NEW c \in ScheduledOn(N, B, date)
      PROVE  b[c] = B[c] /\ ScheduledEntry(n, b[c], c) = ScheduledEntry(N, B[c], c)
  <2>1. c \in DOMAIN b /\ b[c] = B[c] /\ b[c].task \in DOMAIN n
    BY <1>3, <1>6, <1>8 DEF ScheduledOn
  <2>2. n[b[c].task] = N[b[c].task]
    BY <1>4, <2>1
  <2>. QED BY <2>1, <2>2 DEF ScheduledEntry
<1>9. ASSUME NEW k \in CompletedOn(N, date), NEW planned
      PROVE  CompletedEntry(n, k, planned) = CompletedEntry(N, k, planned)
  <2>1. k \in DOMAIN n
    BY <1>7, <1>9 DEF CompletedOn
  <2>2. n[k] = N[k]
    BY <1>4, <2>1
  <2>. QED BY <2>2 DEF CompletedEntry
<1>10. Collect(n, b, date) = Collect(N, B, date)
  <2>. DEFINE p == {b[c].task : c \in ScheduledOn(n, b, date)}
              P == {B[c].task : c \in ScheduledOn(N, B, date)}
              s == {ScheduledEntry(n, b[c], c) : c \in ScheduledOn(n, b, date)}
              S == {ScheduledEntry(N, B[c], c) : c \in ScheduledOn(N, B, date)}
              e == {CompletedEntry(n, k, p) : k \in CompletedOn(n, date)}
              E == {CompletedEntry(N, k, P) : k \in CompletedOn(N, date)}
  <2>1. Collect(n, b, date) = [scheduled |-> s, completed |-> e]
    BY DEF Collect
  <2>2. Collect(N, B, date) = [scheduled |-> S, completed |-> E]
    BY DEF Collect
  <2>3. p = P
    BY <1>6, <1>8
  <2>4. s = S
    BY <1>6, <1>8
  <2>5. e = E
    <3>. HIDE DEF p, P
    <3>. QED BY <1>7, <1>9, <2>3
  <2>. HIDE DEF p, P, s, S, e, E
  <2>. QED BY <2>1, <2>2, <2>4, <2>5
<1>. QED BY <1>10 DEF ComputeDayLog, n, b, N, B

\* A day that no usable block or completion falls on has no log.
LEMMA OtherDaysEmpty ==
  ASSUME NEW nodes, NEW blocks, NEW date, date \notin LogDays(nodes, blocks)
  PROVE  ComputeDayLog(nodes, blocks, date) = None
<1>1. ScheduledOn(nodes, blocks, date) = {}
  BY DEF ScheduledOn, LogDays
<1>2. CompletedOn(nodes, date) = {}
  BY DEF CompletedOn, LogDays
<1>. QED BY <1>1, <1>2 DEF ComputeDayLog, Collect, Finalize

\* Whatever rows an account has, the archive of its journal has the pages of the
\* days with a note or a log, and each shows the log a device renders.
THEOREM ArchiveIsJournal == Spec => []ArchiveShowsJournal
<1>1. ArchiveShowsJournal
  <2>. DEFINE user == plan.user
              n == SelectedNodes(db, user)
              b == SelectedBlocks(db, user)
              logs == ComputeDayLogsByDate(n, b)
              noted == {db[k].date : k \in Notes(db, user)}
              logged == IF DayLogOn(db, user) THEN DOMAIN logs ELSE {}
              export == JournalExport(db, user)
  <2>1. /\ DOMAIN logs = {d \in LogDays(n, b) : ComputeDayLog(n, b, d) # None}
        /\ \A d \in DOMAIN logs : logs[d] = ComputeDayLog(n, b, d)
    <3>. HIDE DEF n, b
    <3>. QED BY DEF ComputeDayLogsByDate
  <2>2. /\ DOMAIN export = noted \cup logged
        /\ \A d \in DOMAIN export : export[d].log = IF d \in logged THEN logs[d] ELSE None
    BY DEF JournalExport
  <2>3. ASSUME NEW d
        PROVE  JournalPage(db, user, d) = IF DayLogOn(db, user) THEN ComputeDayLog(n, b, d) ELSE None
    BY SelectionsAgree DEF JournalPage, Mine
  <2>4. ASSUME NEW d PROVE JournalPage(db, user, d) = IF d \in logged THEN logs[d] ELSE None
    <3>. HIDE DEF n, b, logs
    <3>1. CASE d \in LogDays(n, b)
      BY <2>1, <2>3, <3>1
    <3>2. CASE d \notin LogDays(n, b)
      BY <2>1, <2>3, <3>2, OtherDaysEmpty
    <3>. QED BY <3>1, <3>2
  <2>5. ASSUME NEW d PROVE d \in logged <=> JournalPage(db, user, d) # None
    <3>1. ASSUME d \in logged PROVE logs[d] # None
      <4>. HIDE DEF n, b, logs
      <4>. QED BY <2>1, <3>1
    <3>. HIDE DEF logs, logged
    <3>. QED BY <2>4, <3>1
  <2>6. ASSUME NEW d PROVE d \in noted <=> \E k \in Notes(db, user) : db[k].date = d
    OBVIOUS
  <2>. HIDE DEF logs, logged, noted, export
  <2>7. ASSUME NEW d
        PROVE  /\ d \in DOMAIN export <=>
                    (\/ \E k \in Notes(db, user) : db[k].date = d
                     \/ JournalPage(db, user, d) # None)
               /\ d \in DOMAIN export => export[d].log = JournalPage(db, user, d)
    <3>1. d \in DOMAIN export <=> d \in noted \/ d \in logged
      BY <2>2
    <3>2. d \in DOMAIN export <=>
            (\/ \E k \in Notes(db, user) : db[k].date = d
             \/ JournalPage(db, user, d) # None)
      BY <2>5, <2>6, <3>1
    <3>3. d \in DOMAIN export => export[d].log = JournalPage(db, user, d)
      BY <2>2, <2>4
    <3>. QED BY <3>2, <3>3
  <2>. QED BY <2>7 DEF ArchiveShowsJournal, export
<1>. QED BY <1>1, PTL
=============================================================================
