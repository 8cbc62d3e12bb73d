------------------------------ MODULE TimeSheet ------------------------------
(***************************************************************************)
(* What time tracking promises a user of Prisms (I5): sessions that are      *)
(* recorded once, at most one of them running, and intervals that no longer  *)
(* change once they are closed.  The promise is kept between requests that   *)
(* do not overlap; after two have, a closed session may be given another end. *)
(***************************************************************************)
EXTENDS Integers

CONSTANTS
  Sessions,  \* ids of time entries
  Times,     \* instants, numbers
  None       \* the end of a session that is running

VARIABLES
  sheet,     \* the sessions recorded, a function to [start, end]
  contended  \* requests have overlapped

vars == <<sheet, contended>>

Running == {s \in DOMAIN sheet : sheet[s].end = None}

Recorded(s, start, end) ==
  [x \in DOMAIN sheet \cup {s} |-> IF x = s THEN [start |-> start, end |-> end] ELSE sheet[x]]

Init == sheet = << >> /\ contended = FALSE

\* A session starts when none is running.
Start(s, start) ==
  /\ s \notin DOMAIN sheet /\ Running = {}
  /\ sheet' = Recorded(s, start, None)

\* A later session takes over: the running one ends where the new one starts.
TakeOver(s, start) ==
  /\ s \notin DOMAIN sheet
  /\ \E r \in Running :
       /\ sheet[r].start < start
       /\ sheet' = [Recorded(s, start, None) EXCEPT ![r].end = start]

\* An earlier session that comes in late ends where the running one starts.
Book(s, start) ==
  /\ s \notin DOMAIN sheet
  /\ \E r \in Running :
       /\ start < sheet[r].start
       /\ sheet' = Recorded(s, start, sheet[r].start)

Stop(s, end) ==
  /\ s \in Running /\ sheet[s].start < end
  /\ sheet' = [sheet EXCEPT ![s].end = end]

\* No session is lost, none starts at another time, and none is resumed.
Kept ==
  \E new \in SUBSET (Sessions \ DOMAIN sheet) :
    /\ sheet' \in [DOMAIN sheet \cup new -> [start : Times, end : Times \cup {None}]]
    /\ \A s \in DOMAIN sheet : /\ sheet'[s].start = sheet[s].start
                              /\ sheet[s].end # None => sheet'[s].end # None

\* A session ends after it starts, and no second one runs.
WellFormed ==
  /\ \A s \in DOMAIN sheet : sheet[s].end # None => sheet[s].start < sheet[s].end
  /\ \A r, s \in Running : r = s

\* Overlapping requests may do no more than keep that.
Amend == contended /\ Kept /\ WellFormed'

Next ==
  \/ \E s \in Sessions, t \in Times : (Start(s, t) \/ TakeOver(s, t) \/ Book(s, t) \/ Stop(s, t))
                                      /\ UNCHANGED contended
  \/ Amend /\ UNCHANGED contended
  \/ UNCHANGED sheet /\ contended' = TRUE

Spec == Init /\ [][Next]_vars
=============================================================================
