---------------------------- MODULE MCServerTxn ----------------------------
EXTENDS ServerTxn, TLC
\* Two requests, a parent row r1 and its child r2.
CONSTANTS q1, q2, r1, r2

\* r2 is created under r1, r1 at the root.
MCParent == [r \in Rows |-> IF r = r2 THEN r1 ELSE NoRow]

\* Sound for the invariants of the runs that name it.
Symm == Permutations(Requests)
=============================================================================
