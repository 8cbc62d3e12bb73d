--------------------------- MODULE MCJournalPanel ---------------------------
(* The visits of JournalPanel that TLC runs: what the day holds before, and  *)
(* how often each thing may happen.                                          *)
EXTENDS JournalPanel

CONSTANTS a, b, blank

None == 1 :> {}
Has(locked) == 1 :> {Note(1, a, locked)}
Visit(notes, may) == [notes |-> notes, may |-> may]

\* Typing on a day with and without a note, coming back to it, locking it.
Writing ==
  {Visit(n, [open |-> 1, focus |-> 1, type |-> 2]) : n \in {None, Has(FALSE)}} \cup
  {Visit(Has(l), [open |-> 2, focus |-> 1, type |-> 1]) : l \in BOOLEAN} \cup
  {Visit(None, [open |-> 1, focus |-> 2, type |-> 1, toggle |-> 1])}
Locking ==
  {Visit(Has(TRUE), [open |-> 1, focus |-> 1, type |-> 1, toggle |-> 1]),
   Visit(Has(FALSE), [open |-> 1, focus |-> 1, toggle |-> 2]),
   Visit(Has(FALSE), [open |-> 1, focus |-> 1, type |-> 1, toggle |-> 1]),
   Visit(Has(FALSE) @@ (2 :> {}), [open |-> 2, focus |-> 1, toggle |-> 1])}
\* The other device, a failure, a removal, a reload.
Troubled ==
  {Visit(Has(FALSE), [open |-> 1, focus |-> 1, toggle |-> 1, other |-> 1]),
   Visit(Has(FALSE), [open |-> 1, focus |-> 1, type |-> 1, other |-> 1]),
   Visit(Has(FALSE), [open |-> 1, focus |-> 1, type |-> 1, toggle |-> 1, fail |-> 1]),
   Visit(Has(FALSE), [open |-> 1, focus |-> 1, type |-> 1, remove |-> 1]),
   Visit(None, [open |-> 2, focus |-> 1, type |-> 1, reload |-> 1])}
\* Two days, the agenda beside the panel.
TwoDays == None @@ (2 :> {})
Browsing ==
  {Visit(TwoDays, [open |-> 3, agenda |-> 2]),
   Visit(TwoDays, [open |-> 2, agenda |-> 1, fail |-> 1])}

MCClearing == {Visit(Has(FALSE), [open |-> 1, focus |-> 1, type |-> 2])}
MCVisits == Writing \cup Locking \cup Troubled \cup Browsing
=============================================================================
