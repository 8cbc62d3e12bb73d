------------------------------ MODULE DepGraph ------------------------------
(***************************************************************************)
(* The dependency graph of Prisms (packages/core/src/graph/dag.ts).  An     *)
(* edge index `E` is the set of the live edges, each with at least `pred`    *)
(* and `succ`; node ids are numbers, so that "the smallest id first" is      *)
(* their order.                                                              *)
(***************************************************************************)
EXTENDS Integers, FiniteSets, Sequences, FiniteSetsExt, Functions

Incoming(E, n) == {e \in E : e.succ = n}
Outgoing(E, n) == {e \in E : e.pred = n}

\* The breadth-first walk along the successors, a included, step by step.
Spread(E, a) ==
  LET reach[k \in Nat] ==
        IF k = 0 THEN {a}
        ELSE LET seen == reach[k - 1] IN seen \cup {e.succ : e \in {x \in E : x.pred \in seen}}
  IN  reach

ReachableFrom(E, a) == Spread(E, a)[Cardinality(E)]

WouldCreateCycle(E, p, s) == p \in ReachableFrom(E, s)

\* I4, the gate of edge.create; `t` is the tree index.
ValidEdge(t, E, p, s) ==
  /\ {p, s} \subseteq DOMAIN t
  /\ t[p].type = t[s].type
  /\ \A e \in Outgoing(E, p) : e.succ # s
  /\ ~WouldCreateCycle(E, p, s)

\* The nodes of S whose predecessors within S are done.
Ready(E, S, done) ==
  {n \in S \ done : \A e \in Incoming(E, n) : e.pred \in S => e.pred \in done}

\* Kahn's order of the nodes S: each time the smallest of those that are ready.
KahnSteps(E, S) ==
  LET order[k \in Nat] ==
        IF k = 0 THEN << >>
        ELSE LET o     == order[k - 1]
                 ready == Ready(E, S, Range(o))
             IN  IF ready = {} THEN o ELSE Append(o, Min(ready))
  IN  order

\* Shorter than S when there is a cycle.
TopologicalOrder(E, S) == KahnSteps(E, S)[Cardinality(S)]

HasCycle(E, S) == Len(TopologicalOrder(E, S)) # Cardinality(S)
=============================================================================
