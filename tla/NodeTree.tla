------------------------------ MODULE NodeTree ------------------------------
(***************************************************************************)
(* The node tree of Prisms (packages/core/src/graph): rows point to their    *)
(* parent, and `parent` is that column as a function on all the rows.        *)
(***************************************************************************)

\* softDeleteClosure on the index buildTreeIndex makes of the live rows: the
\* smallest set of live rows that holds the root and every live child of one of
\* its members; empty when the root is not live.
SoftDeleteClosure(parent, live, root) ==
  {r \in live :
     /\ root \in live
     /\ \A S \in SUBSET live :
          (root \in S /\ \A x \in live : parent[x] \in S => x \in S) => r \in S}
=============================================================================
