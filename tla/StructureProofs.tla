--------------------------- MODULE StructureProofs ---------------------------
(***************************************************************************)
(* Proofs about the structural verbs: while the requests of a user do not     *)
(* overlap, the checks of node.create, move, retype, promote and delete keep  *)
(* the live rows a valid tree with justified tasks and no ring of parents,    *)
(* and the cycle check of edge.create keeps the dependencies acyclic.         *)
(*                                                                          *)
(* First what the walks compute (Ascent, Spread, KahnSteps), then what the    *)
(* checks on one tree are worth, then the inductive invariant over the steps  *)
(* of the requests.                                                           *)
(***************************************************************************)
EXTENDS Structure, WellFoundedInduction, FiniteSetTheorems, SequenceTheorems, TLAPS

-----------------------------------------------------------------------------
(***************************************************************************)
(* Induction from the well-foundedness of strict inclusion among finite sets: *)
(* the least number of a set, induction as a fact about a set of numbers, the *)
(* function that iterates a step, and the point where a growing chain of      *)
(* subsets of a finite set stops.  The walks of the server's tree and graph   *)
(* helpers (up the parents, along the dependencies, Kahn's rounds) are such   *)
(* iterations.                                                                *)
(***************************************************************************)

\* Among finite sets there is one that none of the others is strictly inside.
LEMMA MinimalSet ==
  ASSUME NEW S, NEW C, C # {}, \A T \in C : T \subseteq S /\ IsFiniteSet(T)
  PROVE  \E T \in C : \A U \in C : U \subseteq T => U = T
<1>1. C \subseteq FiniteSubsetsOf(S)
  BY DEF FiniteSubsetsOf
<1>2. \E T \in C : \A U \in C : <<U, T>> \notin StrictSubsetOrdering(S)
  BY <1>1, FS_StrictSubsetOrderingWellFounded, WFMin
<1>3. PICK T \in C : \A U \in C : <<U, T>> \notin StrictSubsetOrdering(S)
  BY <1>2
<1>4. ASSUME NEW U \in C, U \subseteq T PROVE U = T
  BY <1>3, <1>4 DEF StrictSubsetOrdering
<1>. QED BY <1>3, <1>4

\* A nonempty set of numbers has a least one.
LEMMA LeastNat ==
  ASSUME NEW T \in SUBSET Nat, T # {}
  PROVE  \E n \in T : \A m \in T : n <= m
<1>. DEFINE C == {1 .. n : n \in T}
<1>1. \A U \in C : U \subseteq Nat /\ IsFiniteSet(U)
  <2>1. TAKE U \in C
  <2>2. PICK n \in T : U = 1 .. n
    BY <2>1
  <2>3. n \in Int /\ 1 \in Int
    BY <2>2
  <2>4. IsFiniteSet(1 .. n)
    BY <2>3, FS_Interval
  <2>5. 1 .. n \subseteq Nat
    BY <2>2
  <2>. QED BY <2>2, <2>4, <2>5
<1>2. C # {}
  OBVIOUS
<1>3. PICK U \in C : \A V \in C : V \subseteq U => V = U
  <2>. HIDE DEF C
  <2>. QED BY <1>1, <1>2, MinimalSet
<1>4. PICK n \in T : U = 1 .. n
  BY <1>3
<1>5. ASSUME NEW m \in T, m < n PROVE FALSE
  <2>1. (1 .. m) \in C /\ 1 .. m \subseteq 1 .. n
    BY <1>5
  <2>2. n \in 1 .. n /\ n \notin 1 .. m
    BY <1>5
  <2>. QED BY <1>3, <1>4, <2>1, <2>2
<1>. QED BY <1>5

\* A set that holds 0, and the successor of each number it holds, holds them all.
LEMMA SetInduction ==
  ASSUME NEW T, 0 \in T, \A n \in Nat : n \in T => n + 1 \in T
  PROVE  \A n \in Nat : n \in T
<1>1. SUFFICES ASSUME Nat \ T # {} PROVE FALSE
  OBVIOUS
<1>2. PICK n \in Nat \ T : \A m \in Nat \ T : n <= m
  BY <1>1, LeastNat
<1>3. n - 1 \in Nat /\ n - 1 \notin Nat \ T /\ (n - 1) + 1 = n
  BY <1>2
<1>. QED BY <1>2, <1>3

\* g is a, then step of a, then step of that, and so on.
Iterates(g, a, step) == g = [k \in Nat |-> IF k = 0 THEN a ELSE step[g[k - 1]]]

\* Every step on a set can be iterated from any of its members.
LEMMA Iterate ==
  ASSUME NEW S, NEW a \in S, NEW step \in [S -> S]
  PROVE  \E g \in [Nat -> S] : Iterates(g, a, step)
<1>. DEFINE Good(n, h) == /\ h \in [0 .. n -> S]
                          /\ h[0] = a
                          /\ \A k \in 1 .. n : h[k] = step[h[k - 1]]
            Fine == {n \in Nat : \E h \in [0 .. n -> S] : Good(n, h)}
<1>1. \A n \in Nat : \E h \in [0 .. n -> S] : Good(n, h)
  <2>1. 0 \in Fine
    <3>1. Good(0, [k \in 0 .. 0 |-> a])
      OBVIOUS
    <3>2. [k \in 0 .. 0 |-> a] \in [0 .. 0 -> S]
      OBVIOUS
    <3>. HIDE DEF Good
    <3>. QED BY <3>1, <3>2
  <2>2. ASSUME NEW n \in Nat, n \in Fine PROVE n + 1 \in Fine
    <3>1. PICK h \in [0 .. n -> S] : Good(n, h)
      BY <2>2
    <3>. DEFINE g == [k \in 0 .. (n + 1) |-> IF k = n + 1 THEN step[h[n]] ELSE h[k]]
    <3>2. h[n] \in S
      OBVIOUS
    <3>3. g \in [0 .. (n + 1) -> S]
      BY <3>2
    <3>4. g[0] = a
      BY <3>1
    <3>5. ASSUME NEW k \in 1 .. (n + 1) PROVE g[k] = step[g[k - 1]]
      <4>1. CASE k = n + 1
        BY <4>1
      <4>2. CASE k # n + 1
        <5>1. k \in 1 .. n /\ k - 1 \in 0 .. (n + 1) /\ k - 1 # n + 1 /\ k \in 0 .. (n + 1)
          BY <4>2
        <5>. QED BY <5>1, <4>2, <3>1
      <4>. QED BY <4>1, <4>2
    <3>6. Good(n + 1, g)
      BY <3>3, <3>4, <3>5
    <3>. HIDE DEF g, Good
    <3>. QED BY <3>3, <3>6
  <2>3. \A n \in Nat : n \in Fine
    <3>. HIDE DEF Fine
    <3>. QED BY <2>1, <2>2, SetInduction
  <2>. QED BY <2>3
<1>. DEFINE pick == [n \in Nat |-> CHOOSE h \in [0 .. n -> S] : Good(n, h)]
<1>2. \A n \in Nat : pick[n] \in [0 .. n -> S] /\ Good(n, pick[n])
  <2>. HIDE DEF Good
  <2>. QED BY <1>1
<1>. HIDE DEF pick
<1>3. ASSUME NEW n \in Nat PROVE pick[n + 1][n] = pick[n][n]
  <2>1. Good(n, pick[n]) /\ Good(n + 1, pick[n + 1])
    BY <1>2
  <2>. DEFINE Same == {k \in Nat : k \in 0 .. n => pick[n + 1][k] = pick[n][k]}
  <2>2. 0 \in Same
    BY <2>1
  <2>3. ASSUME NEW k \in Nat, k \in Same PROVE k + 1 \in Same
    <3>1. SUFFICES ASSUME k + 1 \in 0 .. n PROVE pick[n + 1][k + 1] = pick[n][k + 1]
      OBVIOUS
    <3>2. k + 1 \in 1 .. n /\ k + 1 \in 1 .. (n + 1) /\ k \in 0 .. n /\ (k + 1) - 1 = k
      BY <3>1
    <3>3. pick[n + 1][k] = pick[n][k]
      BY <2>3, <3>2
    <3>. QED BY <2>1, <3>2, <3>3
  <2>4. n \in Same
    <3>. HIDE DEF Same
    <3>. QED BY <2>2, <2>3, SetInduction
  <2>. QED BY <2>4
<1>. DEFINE g == [n \in Nat |-> pick[n][n]]
<1>4. g \in [Nat -> S]
  <2>1. \A n \in Nat : pick[n][n] \in S
    <3>1. TAKE n \in Nat
    <3>2. pick[n] \in [0 .. n -> S]
      <4>. HIDE DEF Good
      <4>. QED BY <1>2
    <3>. QED BY <3>2
  <2>. QED BY <2>1
<1>5. ASSUME NEW k \in Nat PROVE g[k] = IF k = 0 THEN a ELSE step[g[k - 1]]
  <2>1. Good(k, pick[k])
    BY <1>2
  <2>2. CASE k = 0
    BY <2>1, <2>2
  <2>3. CASE k # 0
    <3>1. k - 1 \in Nat /\ k \in 1 .. k /\ (k - 1) + 1 = k
      BY <2>3
    <3>2. pick[k][k - 1] = pick[k - 1][k - 1]
      BY <1>3, <3>1
    <3>3. pick[k][k] = step[pick[k][k - 1]]
      BY <2>1, <3>1
    <3>. QED BY <2>3, <3>1, <3>2, <3>3
  <2>. QED BY <2>2, <2>3
<1>6. g = [k \in Nat |-> IF k = 0 THEN a ELSE step[g[k - 1]]]
  <2>. DEFINE rhs == [k \in Nat |-> IF k = 0 THEN a ELSE step[g[k - 1]]]
  <2>1. \A k \in Nat : g[k] = rhs[k]
    BY <1>5
  <2>2. g = [k \in Nat |-> g[k]] /\ rhs = [k \in Nat |-> rhs[k]]
    OBVIOUS
  <2>. HIDE DEF g, rhs
  <2>3. g = rhs
    BY <2>1, <2>2
  <2>. QED BY <2>3 DEF rhs
<1>. HIDE DEF g
<1>. QED BY <1>4, <1>6 DEF Iterates

\* A growing chain of subsets of D that stays put once it pauses has stopped
\* after as many rounds as D has members.
LEMMA Saturates ==
  ASSUME NEW D, IsFiniteSet(D), NEW up \in [Nat -> SUBSET D],
         \A k \in Nat : up[k] \subseteq up[k + 1],
         \A k \in Nat : up[k + 1] = up[k] => up[(k + 1) + 1] = up[k + 1],
         NEW N \in Nat, Cardinality(D) <= N + Cardinality(up[0])
  PROVE  up[N + 1] = up[N]
<1>1. \A k \in Nat : up[k] \subseteq D /\ IsFiniteSet(up[k]) /\ Cardinality(up[k]) \in Nat
  <2>1. TAKE k \in Nat
  <2>2. up[k] \in SUBSET D
    OBVIOUS
  <2>. QED BY <2>2, FS_Subset, FS_CardinalityType
<1>2. Cardinality(D) \in Nat
  BY FS_CardinalityType
<1>. DEFINE b == Cardinality(up[0])
            T == {k \in Nat : up[k + 1] = up[k] \/ Cardinality(up[k]) >= k + b}
<1>3. b \in Nat
  BY <1>1
<1>4. 0 \in T
  BY <1>3
<1>5. ASSUME NEW k \in Nat, k \in T PROVE k + 1 \in T
  <2>1. k + 1 \in Nat
    OBVIOUS
  <2>2. CASE up[k + 1] = up[k]
    BY <2>1, <2>2
  <2>3. CASE up[k + 1] # up[k]
    <3>1. Cardinality(up[k]) >= k + b
      BY <1>5, <2>3
    <3>2. /\ Cardinality(up[k]) <= Cardinality(up[k + 1])
          /\ Cardinality(up[k + 1]) # Cardinality(up[k])
      <4>1. IsFiniteSet(up[k + 1]) /\ up[k] \in SUBSET up[k + 1]
        BY <1>1, <2>1
      <4>. QED BY <4>1, <2>3, FS_Subset
    <3>3. Cardinality(up[k]) \in Nat /\ Cardinality(up[k + 1]) \in Nat
      BY <1>1, <2>1
    <3>4. Cardinality(up[k + 1]) >= (k + 1) + b
      <4>. HIDE DEF b, T
      <4>. QED BY <1>3, <3>1, <3>2, <3>3
    <3>. QED BY <2>1, <3>4
  <2>. QED BY <2>2, <2>3
<1>6. N \in T
  <2>. HIDE DEF T
  <2>. QED BY <1>4, <1>5, SetInduction
<1>7. CASE Cardinality(up[N]) >= N + b
  <2>1. Cardinality(up[N]) \in Nat /\ Cardinality(up[N]) <= Cardinality(D) /\ up[N] \in SUBSET D
    BY <1>1, FS_Subset
  <2>2. Cardinality(up[N]) = Cardinality(D)
    BY <1>2, <1>3, <1>7, <2>1
  <2>3. up[N] = D
    BY <2>1, <2>2, FS_Subset
  <2>4. up[N + 1] \subseteq D /\ up[N] \subseteq up[N + 1]
    BY <1>1
  <2>. QED BY <2>3, <2>4
<1>. QED BY <1>6, <1>7

-----------------------------------------------------------------------------
(* The walks up the parents.                                                  *)

\* The walk up the parents, round by round.
LEMMA AscentDef ==
  ASSUME NEW t, NEW n
  PROVE  /\ Ascent(t, n) \in [Nat -> SUBSET DOMAIN t]
         /\ Ascent(t, n)[0] = {n} \cap DOMAIN t
         /\ \A k \in Nat : Ascent(t, n)[k + 1] =
              Ascent(t, n)[k] \cup ({t[m].parent : m \in Ascent(t, n)[k]} \cap DOMAIN t)
<1>. DEFINE S == SUBSET DOMAIN t
            a == {n} \cap DOMAIN t
            step == [B \in S |-> B \cup ({t[m].parent : m \in B} \cap DOMAIN t)]
            Eq(g) == g = [k \in Nat |-> IF k = 0 THEN a
                            ELSE LET below == g[k - 1]
                                 IN below \cup ({t[m].parent : m \in below} \cap DOMAIN t)]
<1>1. PICK g \in [Nat -> S] : Iterates(g, a, step)
  <2>1. a \in S
    OBVIOUS
  <2>2. step \in [S -> S]
    OBVIOUS
  <2>. HIDE DEF S, a, step
  <2>. QED BY <2>1, <2>2, Iterate
<1>2. Eq(g)
  <2>1. \A k \in Nat : k # 0 => step[g[k - 1]] = g[k - 1] \cup ({t[m].parent : m \in g[k - 1]} \cap DOMAIN t)
    <3>1. ASSUME NEW k \in Nat, k # 0 PROVE g[k - 1] \in S
      <4>1. k - 1 \in Nat
        BY <3>1
      <4>. HIDE DEF S
      <4>. QED BY <4>1
    <3>. HIDE DEF S
    <3>. QED BY <3>1
  <2>. HIDE DEF step
  <2>. QED BY <1>1, <2>1 DEF Iterates
<1>3. Ascent(t, n) = CHOOSE h : Eq(h)
  BY DEF Ascent
<1>4. Eq(Ascent(t, n))
  <2>. HIDE DEF Eq
  <2>. QED BY <1>2, <1>3
<1>5. ASSUME NEW h, Eq(h)
      PROVE  /\ h \in [Nat -> SUBSET DOMAIN t]
             /\ h[0] = {n} \cap DOMAIN t
             /\ \A k \in Nat : h[k + 1] = h[k] \cup ({t[m].parent : m \in h[k]} \cap DOMAIN t)
  <2>1. \A k \in Nat : h[k] = IF k = 0 THEN a
                            ELSE h[k - 1] \cup ({t[m].parent : m \in h[k - 1]} \cap DOMAIN t)
    BY <1>5
  <2>2. h[0] = {n} \cap DOMAIN t
    BY <2>1
  <2>3. ASSUME NEW k \in Nat
        PROVE  h[k + 1] = h[k] \cup ({t[m].parent : m \in h[k]} \cap DOMAIN t)
    <3>1. k + 1 \in Nat /\ k + 1 # 0 /\ (k + 1) - 1 = k
      OBVIOUS
    <3>. HIDE DEF Eq, a
    <3>. QED BY <2>1, <3>1
  <2>. DEFINE T == {k \in Nat : h[k] \in SUBSET DOMAIN t}
  <2>4. 0 \in T
    BY <2>2
  <2>5. \A k \in Nat : k \in T => k + 1 \in T
    BY <2>3
  <2>6. \A k \in Nat : k \in T
    <3>. HIDE DEF T
    <3>. QED BY <2>4, <2>5, SetInduction
  <2>7. h = [k \in Nat |-> h[k]]
    BY <1>5
  <2>8. h \in [Nat -> SUBSET DOMAIN t]
    <3>. HIDE DEF Eq
    <3>. QED BY <2>6, <2>7
  <2>. QED BY <2>2, <2>3, <2>8
<1>. HIDE DEF Eq
<1>. QED BY <1>4, <1>5

\* The walk stops growing within as many steps as there are rows.
LEMMA AscentClosed ==
  ASSUME NEW t, NEW n, IsFiniteSet(DOMAIN t),
         NEW m \in Ascent(t, n)[Cardinality(DOMAIN t)], t[m].parent \in DOMAIN t
  PROVE  t[m].parent \in Ascent(t, n)[Cardinality(DOMAIN t)]
<1>. DEFINE up == Ascent(t, n)
            N == Cardinality(DOMAIN t)
<1>1. N \in Nat
  BY FS_CardinalityType
<1>2. up \in [Nat -> SUBSET DOMAIN t]
  BY AscentDef
<1>3. \A k \in Nat : up[k + 1] = up[k] \cup ({t[x].parent : x \in up[k]} \cap DOMAIN t)
  BY AscentDef
<1>. HIDE DEF up
<1>4. \A k \in Nat : up[k] \subseteq up[k + 1]
  BY <1>3
<1>5. ASSUME NEW k \in Nat, up[k + 1] = up[k] PROVE up[(k + 1) + 1] = up[k + 1]
  <2>1. up[(k + 1) + 1] = up[k + 1] \cup ({t[x].parent : x \in up[k + 1]} \cap DOMAIN t)
    BY <1>3
  <2>2. up[k + 1] = up[k] \cup ({t[x].parent : x \in up[k]} \cap DOMAIN t)
    BY <1>3
  <2>. QED BY <1>5, <2>1, <2>2
<1>6. Cardinality(up[0]) \in Nat
  BY <1>2, FS_Subset, FS_CardinalityType
<1>7. N <= N + Cardinality(up[0])
  BY <1>1, <1>6
<1>8. up[N + 1] = up[N]
  <2>. HIDE DEF N
  <2>. QED BY <1>1, <1>2, <1>4, <1>5, <1>7, Saturates DEF N
<1>. QED BY <1>1, <1>3, <1>8 DEF up

\* Everything above a parent is above the child.
LEMMA AscentStep ==
  ASSUME NEW t, NEW c \in DOMAIN t, t[c].parent \in DOMAIN t
  PROVE  \A k \in Nat : /\ Ascent(t, t[c].parent)[k] \subseteq Ascent(t, c)[k + 1]
                       /\ Ascent(t, c)[k + 1] \subseteq {c} \cup Ascent(t, t[c].parent)[k]
<1>. DEFINE up == Ascent(t, c)
            above == Ascent(t, t[c].parent)
            T == {k \in Nat : above[k] \subseteq up[k + 1] /\ up[k + 1] \subseteq {c} \cup above[k]}
<1>1. /\ up[0] = {c}
      /\ above[0] = {t[c].parent}
      /\ \A k \in Nat : up[k + 1] = up[k] \cup ({t[x].parent : x \in up[k]} \cap DOMAIN t)
      /\ \A k \in Nat : above[k + 1] = above[k] \cup ({t[x].parent : x \in above[k]} \cap DOMAIN t)
  <2>1. up[0] = {c} /\ above[0] = {t[c].parent}
    BY AscentDef
  <2>2. \A k \in Nat : up[k + 1] = up[k] \cup ({t[x].parent : x \in up[k]} \cap DOMAIN t)
    BY AscentDef
  <2>3. \A k \in Nat : above[k + 1] = above[k] \cup ({t[x].parent : x \in above[k]} \cap DOMAIN t)
    BY AscentDef
  <2>. QED BY <2>1, <2>2, <2>3
<1>. HIDE DEF up, above
<1>2. up[0 + 1] = up[0] \cup ({t[x].parent : x \in up[0]} \cap DOMAIN t)
  BY <1>1
<1>3. 0 \in T
  BY <1>1, <1>2
<1>4. ASSUME NEW k \in Nat, k \in T PROVE k + 1 \in T
  <2>1. above[k] \subseteq up[k + 1] /\ up[k + 1] \subseteq {c} \cup above[k]
    BY <1>4
  <2>2. t[c].parent \in above[k]
    <3>. DEFINE R == {i \in Nat : t[c].parent \in above[i]}
    <3>1. 0 \in R /\ \A i \in Nat : i \in R => i + 1 \in R
      BY <1>1
    <3>. HIDE DEF R
    <3>2. k \in R
      BY <3>1, SetInduction
    <3>. QED BY <3>2 DEF R
  <2>3. above[k + 1] = above[k] \cup ({t[x].parent : x \in above[k]} \cap DOMAIN t)
    BY <1>1
  <2>4. up[(k + 1) + 1] = up[k + 1] \cup ({t[x].parent : x \in up[k + 1]} \cap DOMAIN t)
    BY <1>1
  <2>5. above[k + 1] \subseteq up[(k + 1) + 1]
    BY <2>1, <2>3, <2>4
  <2>6. up[(k + 1) + 1] \subseteq {c} \cup above[k + 1]
    BY <2>1, <2>2, <2>3, <2>4
  <2>. QED BY <2>5, <2>6
<1>5. \A k \in Nat : k \in T
  <2>. HIDE DEF T
  <2>. QED BY <1>3, <1>4, SetInduction
<1>. QED BY <1>5 DEF up, above

\* n itself is where its walk begins.
LEMMA AscentStart ==
  ASSUME NEW t, NEW n \in DOMAIN t
  PROVE  \A k \in Nat : n \in Ascent(t, n)[k]
<1>. DEFINE T == {k \in Nat : n \in Ascent(t, n)[k]}
<1>1. 0 \in T /\ \A k \in Nat : k \in T => k + 1 \in T
  BY AscentDef
<1>. HIDE DEF T
<1>2. \A k \in Nat : k \in T
  BY <1>1, SetInduction
<1>. QED BY <1>2 DEF T

\* A live child of a row in a subtree is in it.
LEMMA SubtreeDownward ==
  ASSUME NEW t, IsFiniteSet(DOMAIN t), NEW n, NEW c \in DOMAIN t, t[c].parent \in Subtree(t, n)
  PROVE  c \in Subtree(t, n)
<1>. DEFINE N == Cardinality(DOMAIN t)
<1>1. N \in Nat
  BY FS_CardinalityType
<1>2. n \in DOMAIN t /\ t[c].parent \in DOMAIN t
  BY DEF Subtree
<1>3. n \in Ascent(t, t[c].parent)[N]
  <2>1. CASE t[c].parent = n
    BY <1>1, <1>2, <2>1, AscentStart
  <2>2. CASE n \in Ancestors(t, t[c].parent)
    BY <2>2 DEF Ancestors
  <2>. QED BY <2>1, <2>2 DEF Subtree
<1>4. n \in Ascent(t, c)[N + 1]
  BY <1>1, <1>2, <1>3, AscentStep
<1>5. Ascent(t, c)[N + 1] = Ascent(t, c)[N] \cup ({t[x].parent : x \in Ascent(t, c)[N]} \cap DOMAIN t)
  BY <1>1, AscentDef
<1>6. n \in Ascent(t, c)[N]
  <2>1. CASE n \in Ascent(t, c)[N]
    BY <2>1
  <2>2. CASE \E x \in Ascent(t, c)[N] : n = t[x].parent
    BY <1>2, <2>2, AscentClosed
  <2>. QED BY <1>4, <1>5, <2>1, <2>2
<1>. QED BY <1>2, <1>6 DEF Subtree, Ancestors

\* A live parent is an ancestor.
LEMMA ParentIsAncestor ==
  ASSUME NEW t, IsFiniteSet(DOMAIN t), NEW n \in DOMAIN t, t[n].parent \in DOMAIN t, t[n].parent # n
  PROVE  t[n].parent \in Ancestors(t, n)
<1>1. Cardinality(DOMAIN t) \in Nat
  BY FS_CardinalityType
<1>2. n \in Ascent(t, n)[Cardinality(DOMAIN t)]
  BY <1>1, AscentStart
<1>. QED BY <1>2, AscentClosed DEF Ancestors

-----------------------------------------------------------------------------
(* The walks along the edges, and Kahn's order.                               *)

\* Every set of nodes of S has one without a predecessor in that set.
Grounded(E, S) ==
  \A T \in SUBSET S : T # {} => \E n \in T : \A e \in E : e.succ = n => e.pred \notin T

\* The walk along the edges, round by round.
LEMMA SpreadDef ==
  ASSUME NEW E, NEW a
  PROVE  LET D == {a} \cup {e.succ : e \in E} IN
         /\ Spread(E, a) \in [Nat -> SUBSET D]
         /\ Spread(E, a)[0] = {a}
         /\ \A k \in Nat : Spread(E, a)[k + 1] =
              Spread(E, a)[k] \cup {e.succ : e \in {x \in E : x.pred \in Spread(E, a)[k]}}
<1>. DEFINE D == {a} \cup {e.succ : e \in E}
            S == SUBSET D
            first == {a}
            step == [B \in S |-> B \cup {e.succ : e \in {x \in E : x.pred \in B}}]
            Eq(g) == g = [k \in Nat |-> IF k = 0 THEN first
                            ELSE LET seen == g[k - 1]
                                 IN seen \cup {e.succ : e \in {x \in E : x.pred \in seen}}]
<1>1. PICK g \in [Nat -> S] : Iterates(g, first, step)
  <2>1. first \in S
    OBVIOUS
  <2>2. step \in [S -> S]
    OBVIOUS
  <2>. HIDE DEF S, first, step
  <2>. QED BY <2>1, <2>2, Iterate
<1>2. Eq(g)
  <2>1. \A k \in Nat : k # 0 => step[g[k - 1]] = g[k - 1] \cup {e.succ : e \in {x \in E : x.pred \in g[k - 1]}}
    <3>1. ASSUME NEW k \in Nat, k # 0 PROVE g[k - 1] \in S
      <4>1. k - 1 \in Nat
        BY <3>1
      <4>. HIDE DEF S
      <4>. QED BY <4>1
    <3>. HIDE DEF S
    <3>. QED BY <3>1
  <2>. HIDE DEF step
  <2>. QED BY <1>1, <2>1 DEF Iterates
<1>3. Spread(E, a) = CHOOSE h : Eq(h)
  BY DEF Spread
<1>4. Eq(Spread(E, a))
  <2>. HIDE DEF Eq
  <2>. QED BY <1>2, <1>3
<1>5. ASSUME NEW h, Eq(h)
      PROVE  /\ h \in [Nat -> SUBSET D]
             /\ h[0] = first
             /\ \A k \in Nat : h[k + 1] = h[k] \cup {e.succ : e \in {x \in E : x.pred \in h[k]}}
  <2>1. \A k \in Nat : h[k] = IF k = 0 THEN first
                            ELSE h[k - 1] \cup {e.succ : e \in {x \in E : x.pred \in h[k - 1]}}
    BY <1>5
  <2>2. h[0] = first
    BY <2>1
  <2>3. ASSUME NEW k \in Nat
        PROVE  h[k + 1] = h[k] \cup {e.succ : e \in {x \in E : x.pred \in h[k]}}
    <3>1. k + 1 \in Nat /\ k + 1 # 0 /\ (k + 1) - 1 = k
      OBVIOUS
    <3>. HIDE DEF Eq, first
    <3>. QED BY <2>1, <3>1
  <2>. DEFINE T == {k \in Nat : h[k] \in SUBSET D}
  <2>4. 0 \in T
    BY <2>2
  <2>5. ASSUME NEW k \in Nat, k \in T PROVE k + 1 \in T
    <3>1. h[k] \subseteq D
      BY <2>5
    <3>2. ASSUME NEW y \in h[k + 1] PROVE y \in D
      <4>1. y \in h[k] \/ \E e \in E : y = e.succ
        <5>. HIDE DEF Eq, T, D
        <5>. QED BY <2>3
      <4>. QED BY <3>1, <4>1
    <3>. QED BY <3>2
  <2>6. \A k \in Nat : k \in T
    <3>. HIDE DEF T
    <3>. QED BY <2>4, <2>5, SetInduction
  <2>7. h = [k \in Nat |-> h[k]]
    BY <1>5
  <2>8. h \in [Nat -> SUBSET D]
    <3>. HIDE DEF Eq
    <3>. QED BY <2>6, <2>7
  <2>. QED BY <2>2, <2>3, <2>8
<1>. HIDE DEF Eq
<1>. QED BY <1>4, <1>5

\* The walk along the edges holds its start and the successors of what it holds.
LEMMA ReachableClosed ==
  ASSUME NEW E, IsFiniteSet(E), NEW a
  PROVE  /\ a \in ReachableFrom(E, a)
         /\ \A e \in E : e.pred \in ReachableFrom(E, a) => e.succ \in ReachableFrom(E, a)
<1>. DEFINE up == Spread(E, a)
            N == Cardinality(E)
            D == {a} \cup {e.succ : e \in E}
<1>1. N \in Nat
  BY FS_CardinalityType
<1>2. up \in [Nat -> SUBSET D]
  BY SpreadDef
<1>11. up[0] = {a}
  BY SpreadDef
<1>3. \A k \in Nat : up[k + 1] = up[k] \cup {e.succ : e \in {x \in E : x.pred \in up[k]}}
  BY SpreadDef
<1>. HIDE DEF up
<1>4. \A k \in Nat : up[k] \subseteq up[k + 1]
  BY <1>3
<1>5. ASSUME NEW k \in Nat, up[k + 1] = up[k] PROVE up[(k + 1) + 1] = up[k + 1]
  <2>1. up[(k + 1) + 1] = up[k + 1] \cup {e.succ : e \in {x \in E : x.pred \in up[k + 1]}}
    BY <1>3
  <2>2. up[k + 1] = up[k] \cup {e.succ : e \in {x \in E : x.pred \in up[k]}}
    BY <1>3
  <2>. QED BY <1>5, <2>1, <2>2
<1>6. Cardinality(up[0]) = 1
  BY <1>11, FS_Singleton
<1>7. IsFiniteSet(D) /\ Cardinality(D) <= N + Cardinality(up[0])
  <2>. DEFINE I == {e.succ : e \in E}
  <2>1. IsFiniteSet(I) /\ Cardinality(I) <= N
    <3>. DEFINE f == [e \in E |-> e.succ]
    <3>1. f \in Surjection(E, I)
      BY DEF Surjection
    <3>. HIDE DEF f, I
    <3>. QED BY <3>1, FS_Surjection
  <2>2. Cardinality(I) \in Nat
    BY <2>1, FS_CardinalityType
  <2>3. /\ IsFiniteSet(I \cup {a})
        /\ Cardinality(I \cup {a}) = IF a \in I THEN Cardinality(I) ELSE Cardinality(I) + 1
    BY <2>1, FS_AddElement
  <2>4. D = I \cup {a}
    OBVIOUS
  <2>. HIDE DEF D, I, N
  <2>. QED BY <1>1, <1>6, <2>1, <2>2, <2>3, <2>4
<1>8. up[N + 1] = up[N]
  <2>. HIDE DEF N, D
  <2>. QED BY <1>1, <1>2, <1>4, <1>5, <1>7, Saturates
<1>9. a \in up[N]
  <2>. DEFINE T == {k \in Nat : a \in up[k]}
  <2>1. 0 \in T /\ \A k \in Nat : k \in T => k + 1 \in T
    BY <1>11, <1>4
  <2>. HIDE DEF T
  <2>2. N \in T
    BY <1>1, <2>1, SetInduction
  <2>. QED BY <2>2 DEF T
<1>10. ASSUME NEW e \in E, e.pred \in up[N] PROVE e.succ \in up[N]
  <2>. HIDE DEF N
  <2>. QED BY <1>1, <1>3, <1>8, <1>10
<1>. QED BY <1>9, <1>10 DEF ReachableFrom, up

\* The least of a nonempty set of numbers is one of them.
LEMMA MinOfNats ==
  ASSUME NEW T \in SUBSET Nat, T # {}
  PROVE  Min(T) \in T
BY LeastNat DEF Min

\* What a list holds after one more.
LEMMA RangeAppend ==
  ASSUME NEW S, NEW o \in Seq(S), NEW x \in S
  PROVE  Range(Append(o, x)) = Range(o) \cup {x}
<1>1. /\ DOMAIN Append(o, x) = 1 .. (Len(o) + 1) /\ DOMAIN o = 1 .. Len(o) /\ Len(o) \in Nat
      /\ Append(o, x)[Len(o) + 1] = x
      /\ \A i \in 1 .. Len(o) : Append(o, x)[i] = o[i]
  OBVIOUS
<1>. DEFINE p == Append(o, x)
<1>. HIDE DEF p
<1>2. \A i \in DOMAIN p : i = Len(o) + 1 \/ i \in DOMAIN o
  BY <1>1 DEF p
<1>3. Len(o) + 1 \in DOMAIN p /\ DOMAIN o \subseteq DOMAIN p
  BY <1>1 DEF p
<1>4. p[Len(o) + 1] = x /\ \A i \in DOMAIN o : p[i] = o[i]
  BY <1>1 DEF p
<1>5. Range(p) = Range(o) \cup {x}
  BY <1>2, <1>3, <1>4, Zenon DEF Range
<1>. QED BY <1>5 DEF p

\* Kahn's order, round by round.
LEMMA KahnDef ==
  ASSUME NEW E, NEW S \in SUBSET Nat
  PROVE  /\ KahnSteps(E, S) \in [Nat -> Seq(S)]
         /\ KahnSteps(E, S)[0] = << >>
         /\ \A k \in Nat : KahnSteps(E, S)[k + 1] =
              LET o == KahnSteps(E, S)[k]
              IN  IF Ready(E, S, Range(o)) = {} THEN o
                  ELSE Append(o, Min(Ready(E, S, Range(o))))
<1>. DEFINE Q == Seq(S)
            Next1(o) == IF Ready(E, S, Range(o)) = {} THEN o
                        ELSE Append(o, Min(Ready(E, S, Range(o))))
            step == [o \in Q |-> Next1(o)]
            Eq(g) == g = [k \in Nat |-> IF k = 0 THEN << >>
                            ELSE LET o == g[k - 1]
                                     ready == Ready(E, S, Range(o))
                                 IN  IF ready = {} THEN o ELSE Append(o, Min(ready))]
<1>1. ASSUME NEW o \in Q PROVE Next1(o) \in Q
  <2>1. CASE Ready(E, S, Range(o)) = {}
    BY <2>1
  <2>2. CASE Ready(E, S, Range(o)) # {}
    <3>1. Ready(E, S, Range(o)) \in SUBSET Nat /\ Ready(E, S, Range(o)) \subseteq S
      BY DEF Ready
    <3>2. Min(Ready(E, S, Range(o))) \in S
      BY <2>2, <3>1, MinOfNats
    <3>. QED BY <2>2, <3>2
  <2>. QED BY <2>1, <2>2
<1>2. << >> \in Q
  OBVIOUS
<1>3. step \in [Q -> Q]
  <2>. HIDE DEF Next1, Q
  <2>. QED BY <1>1
<1>4. PICK g \in [Nat -> Q] : Iterates(g, << >>, step)
  <2>. HIDE DEF step, Q
  <2>. QED BY <1>2, <1>3, Iterate
<1>5. ASSUME NEW k \in Nat, k # 0 PROVE step[g[k - 1]] = Next1(g[k - 1])
  <2>1. g[k - 1] \in Q
    <3>1. k - 1 \in Nat
      BY <1>5
    <3>. HIDE DEF Q
    <3>. QED BY <3>1
  <2>. HIDE DEF Next1, Q
  <2>. QED BY <2>1
<1>6. g = [k \in Nat |-> IF k = 0 THEN << >> ELSE Next1(g[k - 1])]
  <2>. HIDE DEF step, Next1, Q
  <2>. QED BY <1>4, <1>5 DEF Iterates
<1>7. Eq(g)
  BY <1>6
<1>8. KahnSteps(E, S) = CHOOSE h : Eq(h)
  BY DEF KahnSteps
<1>9. Eq(KahnSteps(E, S))
  <2>. HIDE DEF Eq
  <2>. QED BY <1>7, <1>8
<1>10. ASSUME NEW h, Eq(h)
      PROVE  h \in [Nat -> Q] /\ h[0] = << >> /\ \A k \in Nat : h[k + 1] = Next1(h[k])
  <2>1. h = [k \in Nat |-> IF k = 0 THEN << >> ELSE Next1(h[k - 1])]
    BY <1>10
  <2>. HIDE DEF Eq, Next1
  <2>2. h[0] = << >>
    BY <2>1
  <2>3. ASSUME NEW k \in Nat PROVE h[k + 1] = Next1(h[k])
    <3>1. k + 1 \in Nat /\ k + 1 # 0 /\ (k + 1) - 1 = k
      OBVIOUS
    <3>. QED BY <2>1, <3>1
  <2>. DEFINE T == {k \in Nat : h[k] \in Q}
  <2>. HIDE DEF Q
  <2>4. 0 \in T
    BY <1>2, <2>2
  <2>5. ASSUME NEW k \in Nat, k \in T PROVE k + 1 \in T
    <3>1. k + 1 \in Nat /\ h[k + 1] = Next1(h[k]) /\ h[k] \in Q
      BY <2>3, <2>5
    <3>. QED BY <1>1, <3>1
  <2>6. \A k \in Nat : k \in T
    <3>. HIDE DEF T
    <3>. QED BY <2>4, <2>5, SetInduction
  <2>7. h = [k \in Nat |-> h[k]]
    BY <2>1
  <2>. QED BY <2>2, <2>3, <2>6, <2>7
<1>11. /\ KahnSteps(E, S) \in [Nat -> Q]
       /\ KahnSteps(E, S)[0] = << >>
       /\ \A k \in Nat : KahnSteps(E, S)[k + 1] = Next1(KahnSteps(E, S)[k])
  <2>. HIDE DEF Eq, Next1, Q
  <2>. QED BY <1>9, <1>10
<1>. QED BY <1>11

\* Kahn's order takes in every node when no set of nodes feeds on itself.
LEMMA KahnCompletes ==
  ASSUME NEW E, NEW S \in SUBSET Nat, IsFiniteSet(S), Grounded(E, S)
  PROVE  ~HasCycle(E, S)
<1>. DEFINE order == KahnSteps(E, S)
            T == {k \in Nat : k <= Cardinality(S) =>
                    /\ Len(order[k]) = k
                    /\ IsFiniteSet(Range(order[k])) /\ Cardinality(Range(order[k])) = k}
<1>1. Cardinality(S) \in Nat
  BY FS_CardinalityType
<1>2. order \in [Nat -> Seq(S)] /\ order[0] = << >>
  BY KahnDef
<1>3. \A k \in Nat : order[k + 1] = IF Ready(E, S, Range(order[k])) = {} THEN order[k]
                                    ELSE Append(order[k], Min(Ready(E, S, Range(order[k]))))
  BY KahnDef
<1>. HIDE DEF order
<1>4. 0 \in T
  <2>1. Range(order[0]) = {}
    BY <1>2 DEF Range
  <2>. QED BY <1>2, <2>1, FS_EmptySet
<1>5. ASSUME NEW k \in Nat, k \in T PROVE k + 1 \in T
  <2>1. SUFFICES ASSUME k + 1 <= Cardinality(S)
        PROVE /\ Len(order[k + 1]) = k + 1
              /\ IsFiniteSet(Range(order[k + 1])) /\ Cardinality(Range(order[k + 1])) = k + 1
    OBVIOUS
  <2>2. /\ Len(order[k]) = k
        /\ IsFiniteSet(Range(order[k])) /\ Cardinality(Range(order[k])) = k
    BY <1>1, <1>5, <2>1
  <2>. DEFINE o == order[k]
              done == Range(o)
              ready == Ready(E, S, done)
  <2>3. o \in Seq(S)
    BY <1>2
  <2>4. done \subseteq S
    BY <2>3 DEF Range
  <2>5. S \ done # {}
    <3>1. done # S
      BY <1>1, <2>1, <2>2
    <3>. QED BY <2>4, <3>1
  <2>6. ready # {}
    <3>1. PICK n \in S \ done : \A e \in E : e.succ = n => e.pred \notin S \ done
      BY <2>5 DEF Grounded
    <3>2. n \in ready
      BY <3>1 DEF Ready, Incoming
    <3>. QED BY <3>2
  <2>7. Min(ready) \in S \ done
    <3>1. ready \in SUBSET Nat /\ ready \subseteq S \ done
      BY DEF Ready
    <3>. QED BY <2>6, <3>1, MinOfNats
  <2>8. order[k + 1] = Append(o, Min(ready))
    BY <1>3, <2>6
  <2>. HIDE DEF ready
  <2>9. Len(Append(o, Min(ready))) = k + 1
    BY <2>2, <2>3, <2>7
  <2>10. Range(Append(o, Min(ready))) = done \cup {Min(ready)}
    BY <2>3, <2>7, RangeAppend
  <2>11. IsFiniteSet(done \cup {Min(ready)}) /\ Cardinality(done \cup {Min(ready)}) = k + 1
    BY <2>2, <2>7, FS_AddElement
  <2>. QED BY <2>8, <2>9, <2>10, <2>11
<1>6. Cardinality(S) \in T
  <2>. HIDE DEF T
  <2>. QED BY <1>1, <1>4, <1>5, SetInduction
<1>7. Len(order[Cardinality(S)]) = Cardinality(S)
  BY <1>1, <1>6
<1>. QED BY <1>7 DEF HasCycle, TopologicalOrder, order

\* An edge whose predecessor the walk from its successor does not meet closes no ring.
LEMMA GroundedAdd ==
  ASSUME NEW E, IsFiniteSet(E), NEW S, Grounded(E, S), NEW d,
         ~WouldCreateCycle(E, d.pred, d.succ)
  PROVE  Grounded(E \cup {d}, S)
<1>. DEFINE R == ReachableFrom(E, d.succ)
<1>1. d.succ \in R /\ (\A e \in E : e.pred \in R => e.succ \in R) /\ d.pred \notin R
  BY ReachableClosed DEF WouldCreateCycle
<1>. HIDE DEF R
<1>2. SUFFICES ASSUME NEW T \in SUBSET S, T # {}
               PROVE \E n \in T : \A e \in E \cup {d} : e.succ = n => e.pred \notin T
  BY DEF Grounded
<1>3. CASE d.pred \in T
  <2>1. T \ R # {}
    BY <1>1, <1>3
  <2>2. PICK n \in T \ R : \A e \in E : e.succ = n => e.pred \notin T \ R
    BY <2>1 DEF Grounded
  <2>3. ASSUME NEW e \in E \cup {d}, e.succ = n PROVE e.pred \notin T
    BY <1>1, <2>2, <2>3
  <2>. QED BY <2>2, <2>3
<1>4. CASE d.pred \notin T
  BY <1>2, <1>4 DEF Grounded
<1>. QED BY <1>3, <1>4

\* Without some of its edges a graph has no new ring.
LEMMA GroundedFewer ==
  ASSUME NEW E, NEW S, Grounded(E, S), NEW F \in SUBSET E
  PROVE  Grounded(F, S)
BY DEF Grounded

-----------------------------------------------------------------------------
(* What the checks on a tree are worth.                                       *)

\* No walk comes back to where it began.
LEMMA NoRing ==
  ASSUME NEW R, IsFiniteSet(DOMAIN R), ParentsEnd(R), NEW n \in DOMAIN R
  PROVE  R[n].parent \notin Subtree(R, n)
<1>. DEFINE N == Cardinality(DOMAIN R)
            S == {x \in DOMAIN R : n \in Ascent(R, x)[N]}
<1>1. SUFFICES ASSUME R[n].parent \in Subtree(R, n) PROVE FALSE
  OBVIOUS
<1>2. N \in Nat
  BY FS_CardinalityType
<1>3. R[n].parent \in S
  <2>1. R[n].parent \in DOMAIN R /\ (R[n].parent = n \/ n \in Ancestors(R, R[n].parent))
    BY <1>1 DEF Subtree
  <2>. HIDE DEF N
  <2>2. CASE R[n].parent = n
    BY <1>2, <2>1, <2>2, AscentStart
  <2>3. CASE n \in Ancestors(R, R[n].parent)
    BY <2>1, <2>3 DEF Ancestors, N
  <2>. QED BY <2>1, <2>2, <2>3
<1>4. ASSUME NEW x \in S PROVE R[x].parent \in S
  <2>1. CASE x = n
    BY <1>3, <2>1
  <2>2. CASE x # n
    <3>1. x \in DOMAIN R /\ n \in Ascent(R, x)[N]
      OBVIOUS
    <3>2. \A i \in Nat : /\ Ascent(R, x)[i + 1] = Ascent(R, x)[i] \cup ({R[m].parent : m \in Ascent(R, x)[i]} \cap DOMAIN R)
                       /\ Ascent(R, x)[0] = {x}
      BY <3>1, AscentDef
    <3>3. n \in Ascent(R, x)[N + 1]
      <4>. HIDE DEF N
      <4>. QED BY <1>2, <3>1, <3>2
    <3>4. CASE R[x].parent \in DOMAIN R
      <4>1. n \in {x} \cup Ascent(R, R[x].parent)[N]
        <5>. HIDE DEF N
        <5>. QED BY <1>2, <3>1, <3>3, <3>4, AscentStep
      <4>. QED BY <2>2, <3>4, <4>1
    <3>5. CASE R[x].parent \notin DOMAIN R
      <4>. DEFINE T == {i \in Nat : Ascent(R, x)[i] = {x}}
      <4>1. 0 \in T /\ \A i \in Nat : i \in T => i + 1 \in T
        BY <3>2, <3>5
      <4>2. N \in T
        <5>. HIDE DEF T, N
        <5>. QED BY <1>2, <4>1, SetInduction
      <4>. QED BY <2>2, <3>1, <4>2
    <3>. QED BY <3>4, <3>5
  <2>. QED BY <2>1, <2>2
<1>. HIDE DEF S
<1>5. S \subseteq DOMAIN R
  BY DEF S
<1>. QED BY <1>3, <1>4, <1>5 DEF ParentsEnd

\* A tree index: rows of the nodes, by their ids.
IsIndex(t) ==
  /\ t = [n \in DOMAIN t |-> t[n]]
  /\ DOMAIN t \subseteq Nodes
  /\ \A n \in DOMAIN t : t[n] \in NodeRow

\* The types of a tree index's rows, and there are finitely many.
LEMMA IndexFacts ==
  ASSUME NEW t, IsIndex(t)
  PROVE  /\ IsFiniteSet(DOMAIN t) /\ None \notin DOMAIN t
         /\ \A n \in DOMAIN t : /\ t[n].type \in NodeTypes /\ t[n].parent \in Ids
                               /\ t[n].habit \in Habits \cup {None} /\ t[n].live \in BOOLEAN
<1>1. IsFiniteSet(DOMAIN t)
  BY StructureAssumption, FS_Subset DEF IsIndex
<1>2. None \notin DOMAIN t
  BY StructureAssumption DEF IsIndex
<1>. QED BY <1>1, <1>2 DEF IsIndex, NodeRow

\* Justified, said without a walk: by its habit or by its parent, not by both.
JustifiedHere(row) == row.type = "task" => (row.habit # None) # (row.parent # None)

\* In a valid tree a task that may hang under its parent is justified by that
\* parent: the walk for a vision or a roadmap adds nothing.
LEMMA ParentJustifies ==
  ASSUME NEW t, IsIndex(t), \A n \in DOMAIN t : ValidParent(t, t[n].type, t[n].parent),
         NEW p, NEW h, ValidParent(t, "task", p)
  PROVE  TaskJustified(t, "task", p, h) <=> ((h # None) # (p # None))
<1>1. CASE p \in DOMAIN t
  <2>1. p # None
    BY <1>1, IndexFacts
  <2>2. t[p].type \in {"milestone", "project"}
    BY <1>1, <2>1 DEF ValidParent, AllowedParents
  <2>3. ReachesProject(t, p)
    <3>1. CASE t[p].type = "project"
      BY <1>1, <3>1 DEF ReachesProject
    <3>2. CASE t[p].type = "milestone"
      <4>1. t[p].parent \in DOMAIN t /\ t[t[p].parent].type = "project"
        BY <1>1, <3>2 DEF ValidParent, AllowedParents, ParentlessAllowed
      <4>2. t[p].parent # p
        BY <3>2, <4>1
      <4>3. t[p].parent \in Ancestors(t, p)
        BY <1>1, <4>1, <4>2, IndexFacts, ParentIsAncestor
      <4>. QED BY <1>1, <4>1, <4>3 DEF ReachesProject
    <3>. QED BY <2>2, <3>1, <3>2
  <2>4. TaskJustified(t, "task", p, h) <=> (h = None)
    BY <2>3, Zenon DEF TaskJustified
  <2>. QED BY <2>1, <2>4
<1>2. CASE p \notin DOMAIN t
  <2>1. p = None /\ ReachesProject(t, p) = FALSE
    BY <1>2 DEF ValidParent, ReachesProject
  <2>2. TaskJustified(t, "task", p, h) <=> (h # None)
    BY <2>1 DEF TaskJustified
  <2>. QED BY <2>1, <2>2
<1>. QED BY <1>1, <1>2

\* In a valid tree, justified by the walk is justified by the row.
LEMMA JustificationIff ==
  ASSUME NEW t, IsIndex(t), HierarchyHolds(t)
  PROVE  JustificationHolds(t) <=> \A n \in DOMAIN t : JustifiedHere(t[n])
<1>1. ASSUME NEW n \in DOMAIN t
      PROVE  TaskJustified(t, t[n].type, t[n].parent, t[n].habit) <=> JustifiedHere(t[n])
  <2>1. CASE t[n].type = "task"
    BY <2>1, ParentJustifies DEF HierarchyHolds, JustifiedHere
  <2>2. CASE t[n].type # "task"
    BY <2>2 DEF TaskJustified, JustifiedHere
  <2>. QED BY <2>1, <2>2
<1>. QED BY <1>1 DEF JustificationHolds

\* The visions of the tree t.
Visions(t) == {n \in DOMAIN t : t[n].type = "vision"}

\* There are finitely many visions.
LEMMA VisionsFinite ==
  ASSUME NEW t, IsIndex(t)
  PROVE  IsFiniteSet(Visions(t)) /\ Cardinality(Visions(t)) \in Nat
<1>1. Visions(t) \in SUBSET DOMAIN t
  BY DEF Visions
<1>. QED BY <1>1, IndexFacts, FS_Subset, FS_CardinalityType

\* node.create's checks keep the tree a tree.
LEMMA GrownTree ==
  ASSUME NEW t, NEW u, NEW n, IsIndex(t), HierarchyHolds(t),
         n \notin DOMAIN t, DOMAIN u = DOMAIN t \cup {n},
         \A m \in DOMAIN t : u[m] = t[m],
         CheckNodeCreate(t, u[n].type, u[n].parent, u[n].habit)
  PROVE  /\ HierarchyHolds(u)
         /\ (\A m \in DOMAIN t : JustifiedHere(t[m])) => \A m \in DOMAIN u : JustifiedHere(u[m])
<1>1. ASSUME NEW m \in DOMAIN u PROVE ValidParent(u, u[m].type, u[m].parent)
  <2>1. ValidParent(t, u[m].type, u[m].parent)
    BY DEF CheckNodeCreate, HierarchyHolds
  <2>. QED BY <2>1 DEF ValidParent
<1>2. Cardinality(Visions(u)) <= MaxVisions
  <2>1. CASE u[n].type = "vision"
    <3>1. Visions(u) = Visions(t) \cup {n} /\ n \notin Visions(t)
      BY <2>1 DEF Visions
    <3>2. Cardinality(Visions(t)) < MaxVisions
      BY <2>1 DEF CheckNodeCreate, VisionRoom, Visions
    <3>3. Cardinality(Visions(t) \cup {n}) = Cardinality(Visions(t)) + 1
      BY <3>1, VisionsFinite, FS_AddElement
    <3>. QED BY <3>1, <3>2, <3>3, VisionsFinite, StructureAssumption
  <2>2. CASE u[n].type # "vision"
    <3>1. Visions(u) = Visions(t)
      BY <2>2 DEF Visions
    <3>. QED BY <3>1 DEF HierarchyHolds, Visions
  <2>. QED BY <2>1, <2>2
<1>3. JustifiedHere(u[n])
  <2>1. CASE u[n].type = "task"
    BY <2>1, ParentJustifies DEF CheckNodeCreate, HierarchyHolds, JustifiedHere
  <2>2. CASE u[n].type # "task"
    BY <2>2 DEF JustifiedHere
  <2>. QED BY <2>1, <2>2
<1>. QED BY <1>1, <1>2, <1>3 DEF HierarchyHolds, Visions

\* A node takes another type or parent, its children still accept it.
LEMMA EditedTree ==
  ASSUME NEW t, NEW u, NEW n \in DOMAIN t, IsIndex(t), HierarchyHolds(t),
         DOMAIN u = DOMAIN t,
         \A m \in DOMAIN t \ {n} : u[m] = t[m],
         ValidParent(t, u[n].type, u[n].parent), u[n].parent # n,
         \A m \in DOMAIN t : t[m].parent = n => u[n].type \in AllowedParents[t[m].type],
         u[n].type = "vision" => t[n].type = "vision" \/ VisionRoom(t)
  PROVE  HierarchyHolds(u)
<1>1. ASSUME NEW m \in DOMAIN u PROVE ValidParent(u, u[m].type, u[m].parent)
  <2>1. CASE m = n
    BY <2>1 DEF ValidParent
  <2>2. CASE m # n
    <3>1. ValidParent(t, u[m].type, u[m].parent)
      BY <2>2 DEF HierarchyHolds
    <3>. QED BY <2>2, <3>1 DEF ValidParent
  <2>. QED BY <2>1, <2>2
<1>2. Cardinality(Visions(u)) <= MaxVisions
  <2>0. Cardinality(Visions(t)) <= MaxVisions
    BY DEF HierarchyHolds, Visions
  <2>1. CASE u[n].type = "vision" /\ t[n].type # "vision"
    <3>1. Visions(u) = Visions(t) \cup {n} /\ n \notin Visions(t)
      BY <2>1 DEF Visions
    <3>2. Cardinality(Visions(t)) < MaxVisions
      BY <2>1 DEF VisionRoom, Visions
    <3>3. Cardinality(Visions(t) \cup {n}) = Cardinality(Visions(t)) + 1
      BY <3>1, VisionsFinite, FS_AddElement
    <3>. QED BY <3>1, <3>2, <3>3, VisionsFinite, StructureAssumption
  <2>2. CASE ~(u[n].type = "vision" /\ t[n].type # "vision")
    <3>1. Visions(u) \in SUBSET Visions(t)
      BY <2>2 DEF Visions
    <3>2. Cardinality(Visions(u)) <= Cardinality(Visions(t)) /\ IsFiniteSet(Visions(u))
      BY <3>1, VisionsFinite, FS_Subset
    <3>3. Cardinality(Visions(u)) \in Nat
      BY <3>2, FS_CardinalityType
    <3>. QED BY <2>0, <3>2, <3>3, VisionsFinite, StructureAssumption
  <2>. QED BY <2>1, <2>2
<1>. QED BY <1>1, <1>2 DEF HierarchyHolds, Visions

\* Rows go with everything below them.
LEMMA PrunedTree ==
  ASSUME NEW t, NEW u, IsIndex(t), HierarchyHolds(t),
         DOMAIN u \subseteq DOMAIN t, \A m \in DOMAIN u : u[m] = t[m],
         \A m \in DOMAIN u : t[m].parent \in DOMAIN t => t[m].parent \in DOMAIN u
  PROVE  HierarchyHolds(u)
<1>1. ASSUME NEW m \in DOMAIN u PROVE ValidParent(u, u[m].type, u[m].parent)
  BY DEF HierarchyHolds, ValidParent
<1>2. Cardinality(Visions(u)) <= MaxVisions
  <2>1. Visions(u) \in SUBSET Visions(t)
    BY DEF Visions
  <2>2. Cardinality(Visions(u)) <= Cardinality(Visions(t)) /\ IsFiniteSet(Visions(u))
    BY <2>1, VisionsFinite, FS_Subset
  <2>3. Cardinality(Visions(t)) <= MaxVisions
    BY DEF HierarchyHolds, Visions
  <2>4. Cardinality(Visions(u)) \in Nat
    BY <2>2, FS_CardinalityType
  <2>. QED BY <2>2, <2>3, <2>4, VisionsFinite, StructureAssumption
<1>. QED BY <1>1, <1>2 DEF HierarchyHolds, Visions

\* How far below a vision a type lives.
Rank == [vision |-> 0, roadmap |-> 1, project |-> 2, milestone |-> 3, task |-> 4, activity |-> 0]

\* A valid live tree ends every walk, if the deleted rows are old ones.
LEMMA LiveParentsEnd ==
  ASSUME NEW R, NEW R2, ParentsEnd(R), IsIndex(R2), HierarchyHolds(TreeIndex(R2)),
         \A m \in DOMAIN R2 : ~R2[m].live => m \in DOMAIN R /\ R2[m].parent = R[m].parent
  PROVE  ParentsEnd(R2)
<1>. DEFINE t == TreeIndex(R2)
<1>1. /\ \A m : m \in DOMAIN t <=> m \in DOMAIN R2 /\ R2[m].live
      /\ \A m \in DOMAIN t : t[m] = R2[m]
  BY DEF TreeIndex
<1>2. \A m \in DOMAIN t : ValidParent(t, t[m].type, t[m].parent)
  BY DEF HierarchyHolds
<1>. HIDE DEF t
<1>3. SUFFICES ASSUME NEW S \in SUBSET DOMAIN R2, S # {}
               PROVE  \E n \in S : R2[n].parent \notin S
  BY DEF ParentsEnd
<1>4. CASE S \cap DOMAIN t = {}
  <2>1. S \subseteq DOMAIN R /\ \A m \in S : R2[m].parent = R[m].parent
    BY <1>1, <1>4, IndexFacts
  <2>. QED BY <1>3, <2>1 DEF ParentsEnd
<1>5. CASE S \cap DOMAIN t # {}
  <2>. DEFINE ranks == {Rank[t[m].type] : m \in S \cap DOMAIN t}
  <2>1. \A m \in DOMAIN t : t[m].type \in NodeTypes
    BY <1>1, IndexFacts
  <2>2. ranks \in SUBSET Nat /\ ranks # {}
    BY <1>5, <2>1 DEF Rank, NodeTypes
  <2>3. PICK r \in ranks : \A x \in ranks : r <= x
    <3>. HIDE DEF ranks
    <3>. QED BY <2>2, LeastNat
  <2>4. PICK m \in S \cap DOMAIN t : r = Rank[t[m].type]
    BY <2>3
  <2>5. ASSUME t[m].parent \in S PROVE FALSE
    <3>1. t[m].parent # None
      BY <2>5, IndexFacts
    <3>2. t[m].parent \in DOMAIN t /\ t[t[m].parent].type \in AllowedParents[t[m].type]
      BY <1>2, <2>4, <3>1 DEF ValidParent
    <3>3. Rank[t[t[m].parent].type] < Rank[t[m].type]
      BY <2>1, <2>4, <3>2 DEF AllowedParents, NodeTypes, Rank
    <3>4. Rank[t[t[m].parent].type] \in ranks
      BY <2>5, <3>2
    <3>5. r \in Nat /\ Rank[t[t[m].parent].type] \in Nat /\ r <= Rank[t[t[m].parent].type]
      <4>. HIDE DEF ranks
      <4>. QED BY <2>2, <2>3, <3>4
    <3>. QED BY <2>4, <3>3, <3>5
  <2>6. R2[m].parent = t[m].parent
    BY <1>1, <2>4
  <2>. QED BY <2>4, <2>5, <2>6
<1>. QED BY <1>4, <1>5

-----------------------------------------------------------------------------
(* What a write makes of a sound table.                                       *)

\* The hierarchy holds of the live rows, every walk up ends, and, unless an
\* update was split, every live task is justified.
SoundRows(R, halved) ==
  /\ HierarchyHolds(TreeIndex(R))
  /\ ParentsEnd(R)
  /\ ~halved => \A n \in DOMAIN TreeIndex(R) : JustifiedHere(TreeIndex(R)[n])

\* The index of the live rows, row by row.
LEMMA LiveIndex ==
  ASSUME NEW R, IsIndex(R)
  PROVE  /\ IsIndex(TreeIndex(R))
         /\ \A n : n \in DOMAIN TreeIndex(R) <=> n \in DOMAIN R /\ R[n].live
         /\ \A n \in DOMAIN TreeIndex(R) : TreeIndex(R)[n] = R[n]
BY DEF TreeIndex, IsIndex

\* node.create.
LEMMA CreateKeeps ==
  ASSUME NEW R, NEW R2, NEW n, NEW row, NEW halved, IsIndex(R), IsIndex(R2), n \notin DOMAIN R,
         DOMAIN R2 = DOMAIN R \cup {n}, \A m \in DOMAIN R : R2[m] = R[m],
         R2[n] = row, row.live = TRUE,
         CheckNodeCreate(TreeIndex(R), row.type, row.parent, row.habit),
         SoundRows(R, halved)
  PROVE  SoundRows(R2, halved)
<1>. DEFINE t == TreeIndex(R)
            u == TreeIndex(R2)
<1>1. /\ IsIndex(t)
      /\ \A m : m \in DOMAIN t <=> m \in DOMAIN R /\ R[m].live
      /\ \A m \in DOMAIN t : t[m] = R[m]
  BY LiveIndex
<1>2. /\ IsIndex(u)
      /\ \A m : m \in DOMAIN u <=> m \in DOMAIN R2 /\ R2[m].live
      /\ \A m \in DOMAIN u : u[m] = R2[m]
  BY LiveIndex
<1>3. /\ HierarchyHolds(t) /\ ParentsEnd(R)
      /\ ~halved => \A m \in DOMAIN t : JustifiedHere(t[m])
      /\ CheckNodeCreate(t, row.type, row.parent, row.habit)
  BY DEF SoundRows
<1>. HIDE DEF t, u
<1>4. /\ n \notin DOMAIN t /\ DOMAIN u = DOMAIN t \cup {n} /\ u[n] = row
      /\ \A m \in DOMAIN t : u[m] = t[m]
  BY <1>1, <1>2
<1>5. CheckNodeCreate(t, u[n].type, u[n].parent, u[n].habit)
  BY <1>3, <1>4
<1>6. /\ HierarchyHolds(u)
      /\ (\A m \in DOMAIN t : JustifiedHere(t[m])) => \A m \in DOMAIN u : JustifiedHere(u[m])
  BY <1>1, <1>3, <1>4, <1>5, GrownTree
<1>7. \A m \in DOMAIN R2 : ~R2[m].live => m \in DOMAIN R /\ R2[m].parent = R[m].parent
  OBVIOUS
<1>8. ParentsEnd(R2)
  BY <1>3, <1>6, <1>7, LiveParentsEnd DEF u
<1>. QED BY <1>3, <1>6, <1>8 DEF SoundRows, u

\* An update of a live row to one that its place and its children accept.
LEMMA UpdateKeeps ==
  ASSUME NEW R, NEW R2, NEW halved, NEW after, IsIndex(R), IsIndex(R2), SoundRows(R, halved),
         NEW n \in DOMAIN TreeIndex(R), DOMAIN R2 = DOMAIN R, R2[n].live = R[n].live,
         \A m \in DOMAIN R \ {n} : R2[m] = R[m],
         ValidParent(TreeIndex(R), R2[n].type, R2[n].parent), R2[n].parent # n,
         \A m \in DOMAIN TreeIndex(R) :
           TreeIndex(R)[m].parent = n => R2[n].type \in AllowedParents[TreeIndex(R)[m].type],
         R2[n].type = "vision" => TreeIndex(R)[n].type = "vision" \/ VisionRoom(TreeIndex(R)),
         ~after => ~halved /\ JustifiedHere(R2[n])
  PROVE  SoundRows(R2, after)
<1>. DEFINE t == TreeIndex(R)
            u == TreeIndex(R2)
<1>1. /\ IsIndex(t)
      /\ \A m : m \in DOMAIN t <=> m \in DOMAIN R /\ R[m].live
      /\ \A m \in DOMAIN t : t[m] = R[m]
  BY LiveIndex
<1>2. /\ IsIndex(u)
      /\ \A m : m \in DOMAIN u <=> m \in DOMAIN R2 /\ R2[m].live
      /\ \A m \in DOMAIN u : u[m] = R2[m]
  BY LiveIndex
<1>3. /\ HierarchyHolds(t) /\ ParentsEnd(R)
      /\ ~halved => \A m \in DOMAIN t : JustifiedHere(t[m])
  BY DEF SoundRows
<1>4. /\ n \in DOMAIN t
      /\ ValidParent(t, R2[n].type, R2[n].parent)
      /\ \A m \in DOMAIN t : t[m].parent = n => R2[n].type \in AllowedParents[t[m].type]
      /\ R2[n].type = "vision" => t[n].type = "vision" \/ VisionRoom(t)
  OBVIOUS
<1>. HIDE DEF t, u
<1>5. /\ DOMAIN u = DOMAIN t /\ u[n] = R2[n]
      /\ \A m \in DOMAIN t \ {n} : u[m] = t[m]
  BY <1>1, <1>2, <1>4
<1>6. HierarchyHolds(u)
  BY <1>1, <1>3, <1>4, <1>5, EditedTree
<1>7. \A m \in DOMAIN R2 : ~R2[m].live => m \in DOMAIN R /\ R2[m].parent = R[m].parent
  BY <1>1, <1>4
<1>8. ParentsEnd(R2)
  BY <1>3, <1>6, <1>7, LiveParentsEnd DEF u
<1>9. ~after => \A m \in DOMAIN u : JustifiedHere(u[m])
  BY <1>3, <1>5
<1>. QED BY <1>6, <1>8, <1>9 DEF SoundRows, u

\* node.soft_delete and its cascade.
LEMMA DeleteKeeps ==
  ASSUME NEW R, NEW R2, NEW halved, NEW n, IsIndex(R), IsIndex(R2), SoundRows(R, halved),
         DOMAIN R2 = DOMAIN R,
         \A m \in Subtree(TreeIndex(R), n) : ~R2[m].live /\ R2[m].parent = R[m].parent,
         \A m \in DOMAIN R \ Subtree(TreeIndex(R), n) : R2[m] = R[m]
  PROVE  SoundRows(R2, halved)
<1>. DEFINE t == TreeIndex(R)
            u == TreeIndex(R2)
<1>1. /\ IsIndex(t)
      /\ \A m : m \in DOMAIN t <=> m \in DOMAIN R /\ R[m].live
      /\ \A m \in DOMAIN t : t[m] = R[m]
  BY LiveIndex
<1>2. /\ IsIndex(u)
      /\ \A m : m \in DOMAIN u <=> m \in DOMAIN R2 /\ R2[m].live
      /\ \A m \in DOMAIN u : u[m] = R2[m]
  BY LiveIndex
<1>3. /\ HierarchyHolds(t) /\ ParentsEnd(R)
      /\ ~halved => \A m \in DOMAIN t : JustifiedHere(t[m])
  BY DEF SoundRows
<1>4. /\ \A m \in Subtree(t, n) : ~R2[m].live /\ R2[m].parent = R[m].parent
      /\ \A m \in DOMAIN R \ Subtree(t, n) : R2[m] = R[m]
  OBVIOUS
<1>. HIDE DEF t, u
<1>7. ASSUME NEW m \in DOMAIN u PROVE m \in DOMAIN t /\ m \notin Subtree(t, n) /\ u[m] = t[m]
  <2>1. m \in DOMAIN R /\ R2[m].live /\ u[m] = R2[m]
    BY <1>2
  <2>2. m \notin Subtree(t, n) /\ R2[m] = R[m]
    BY <1>4, <2>1
  <2>3. m \in DOMAIN t /\ t[m] = R[m]
    BY <1>1, <2>1, <2>2, Zenon
  <2>. QED BY <2>1, <2>2, <2>3
<1>8. ASSUME NEW m \in DOMAIN u, t[m].parent \in DOMAIN t PROVE t[m].parent \in DOMAIN u
  <2>1. m \in DOMAIN t /\ m \notin Subtree(t, n)
    BY <1>7
  <2>2. t[m].parent \notin Subtree(t, n)
    BY <1>1, <2>1, IndexFacts, SubtreeDownward
  <2>3. t[m].parent \in DOMAIN R /\ R[t[m].parent].live
    BY <1>1, <1>8
  <2>4. R2[t[m].parent] = R[t[m].parent]
    BY <1>4, <2>2, <2>3
  <2>5. t[m].parent \in DOMAIN R2 /\ R2[t[m].parent].live
    BY <2>3, <2>4
  <2>. QED BY <1>2, <2>5
<1>9. HierarchyHolds(u)
  <2>1. DOMAIN u \subseteq DOMAIN t /\ \A m \in DOMAIN u : u[m] = t[m]
    BY <1>7
  <2>. QED BY <1>1, <1>3, <1>8, <2>1, PrunedTree
<1>10. ParentsEnd(R2)
  <2>1. \A m \in DOMAIN R2 : ~R2[m].live => m \in DOMAIN R /\ R2[m].parent = R[m].parent
    BY <1>4
  <2>. QED BY <1>3, <1>9, <2>1, LiveParentsEnd DEF u
<1>11. ~halved => \A m \in DOMAIN u : JustifiedHere(u[m])
  BY <1>3, <1>7
<1>. QED BY <1>9, <1>10, <1>11 DEF SoundRows, u

\* Where a live row hangs now it may stay.
LEMMA SameRowFits ==
  ASSUME NEW R, NEW halved, IsIndex(R), SoundRows(R, halved), NEW n \in DOMAIN TreeIndex(R)
  PROVE  /\ ValidParent(TreeIndex(R), R[n].type, R[n].parent)
         /\ R[n].parent # n
         /\ \A m \in DOMAIN TreeIndex(R) :
              TreeIndex(R)[m].parent = n => R[n].type \in AllowedParents[TreeIndex(R)[m].type]
         /\ ~halved => JustifiedHere(R[n])
<1>. DEFINE t == TreeIndex(R)
<1>1. /\ IsIndex(t)
      /\ \A m : m \in DOMAIN t <=> m \in DOMAIN R /\ R[m].live
      /\ \A m \in DOMAIN t : t[m] = R[m]
  BY LiveIndex
<1>2. /\ \A m \in DOMAIN t : ValidParent(t, t[m].type, t[m].parent)
      /\ ParentsEnd(R)
      /\ ~halved => \A m \in DOMAIN t : JustifiedHere(t[m])
  BY DEF SoundRows, HierarchyHolds
<1>3. n \in DOMAIN t
  OBVIOUS
<1>. HIDE DEF t
<1>4. R[n].parent # n
  <2>1. {n} \in SUBSET DOMAIN R /\ {n} # {}
    BY <1>1, <1>3
  <2>. QED BY <1>2, <2>1 DEF ParentsEnd
<1>5. \A m \in DOMAIN t : t[m].parent = n => t[n].type \in AllowedParents[t[m].type]
  BY <1>1, <1>2, <1>3, IndexFacts DEF ValidParent
<1>. QED BY <1>1, <1>2, <1>3, <1>4, <1>5 DEF t
-----------------------------------------------------------------------------
(* The inductive invariant.                                                   *)

EdgeRow == [pred : Nodes, succ : Nodes, live : BOOLEAN]

\* A command between its check and its write.
Pending == [cmd : Commands, hlc : 1 .. MaxCommands, verdict : {"converged", "rejected", "write"}]

\* Every variable has its type: rows and edges are tables of well-formed rows,
\* and a request has at most one memo of each kind and one command under way.
TypeOK ==
  /\ IsIndex(rows)
  /\ DOMAIN edges \subseteq EdgeIds /\ edges \in [DOMAIN edges -> EdgeRow]
  /\ version \in [Nodes -> [Columns -> Nat]]
  /\ open \in SUBSET Requests
  /\ DOMAIN tree = Requests /\ \A q \in Requests : \A t \in tree[q] : tree[q] = {t} /\ IsIndex(t)
  /\ DOMAIN graph = Requests /\ \A q \in Requests : \A E \in graph[q] : graph[q] = {E} /\ E \subseteq EdgeRow
  /\ cur \in [Requests -> SUBSET Pending]
  /\ \A q \in Requests : \A x \in cur[q] : cur[q] = {x}
  /\ minted \in SUBSET (1 .. MaxCommands)
  /\ overlapped \in BOOLEAN /\ split \in BOOLEAN

\* A request that is not under way has nothing in hand.
Closed == \A q \in Requests \ open : tree[q] = {} /\ graph[q] = {} /\ cur[q] = {}

\* A command that is to write has its row or edge: no row is ever removed.
Finds == \A q \in Requests : \A x \in cur[q] : x.verdict = "write" => Found(x.cmd)

\* No two requests are under way.
OneOpen == \A p, q \in open : p = q

\* What a request has cached is what the tables hold.
Memo == \A q \in Requests : tree[q] \subseteq {Live} /\ graph[q] \subseteq {LiveEdges}

\* A command that is to write still passes its checks.
StillAccepted ==
  \A q \in Requests : \A x \in cur[q] :
    x.verdict = "write" => ~Converged(x.cmd) /\ Accepted(q, x.cmd)

Serial == OneOpen /\ Memo /\ StillAccepted /\ SoundRows(rows, split) /\ Grounded(LiveEdges, Nodes)

\* The invariant: the parts that hold always, and those that need one request at a time.
Inv == TypeOK /\ Finds /\ Closed /\ (~overlapped => Serial)

\* The payload of each verb.
LEMMA CommandType ==
  ASSUME NEW c \in Commands
  PROVE  /\ c.verb \in {"create", "move", "retype", "promote", "delete", "link", "unlink"}
         /\ c.verb \in {"create", "move", "retype", "promote", "delete"} => c.node \in Nodes
         /\ c.verb \in {"create", "retype"} => c.type \in NodeTypes
         /\ c.verb \in {"create", "move", "promote"} => c.parent \in Ids
         /\ c.verb \in {"create", "promote"} => c.habit \in Habits \cup {None}
         /\ c.verb \in {"link", "unlink"} => c.edge \in EdgeIds
         /\ c.verb = "link" => c.pred \in Nodes /\ c.succ \in Nodes
BY StructureAssumption DEF Command

\* What an update makes of its row: each column that won is the command's, the
\* others are the row's, and it stays live or deleted.
LEMMA MergedRow ==
  ASSUME IsIndex(rows), NEW c \in Commands, NEW h,
         c.verb \in {"move", "retype", "promote"}, c.node \in DOMAIN rows
  PROVE  LET r == rows[c.node]
             m == Merged(c, h)
             W == Winning(c, h)
         IN  /\ m \in NodeRow /\ m.live = r.live
             /\ W \subseteq DOMAIN Candidate(c)
             /\ c.verb = "move" =>
                  /\ DOMAIN Candidate(c) = {"parent"}
                  /\ m.type = r.type /\ m.habit = r.habit
                  /\ m.parent = IF "parent" \in W THEN c.parent ELSE r.parent
             /\ c.verb = "retype" =>
                  /\ DOMAIN Candidate(c) = {"type"}
                  /\ m.parent = r.parent /\ m.habit = r.habit
                  /\ m.type = IF "type" \in W THEN c.type ELSE r.type
             /\ c.verb = "promote" =>
                  /\ DOMAIN Candidate(c) = {"type", "parent", "habit"}
                  /\ m.type = IF "type" \in W THEN "task" ELSE r.type
                  /\ m.parent = IF "parent" \in W THEN c.parent ELSE r.parent
                  /\ m.habit = IF "habit" \in W THEN c.habit ELSE r.habit
<1>. DEFINE r == rows[c.node]
            m == Merged(c, h)
            W == Winning(c, h)
            K == Candidate(c)
<1>1. r \in NodeRow
  BY DEF IsIndex
<1>2. W \subseteq DOMAIN K
  BY DEF Winning
<1>3. m = [f \in DOMAIN r |-> IF f \in W THEN K[f] ELSE r[f]]
  BY DEF Merged
<1>4. /\ c.verb = "move" => K = [parent |-> c.parent]
      /\ c.verb = "retype" => K = [type |-> c.type]
      /\ c.verb = "promote" => K = [type |-> "task", parent |-> c.parent, habit |-> c.habit]
  BY DEF Candidate
<1>. HIDE DEF m, W, K, r
<1>5. /\ c.verb = "move" => DOMAIN K = {"parent"} /\ K["parent"] = c.parent
      /\ c.verb = "retype" => DOMAIN K = {"type"} /\ K["type"] = c.type
      /\ c.verb = "promote" => /\ DOMAIN K = {"type", "parent", "habit"}
                               /\ K["type"] = "task" /\ K["parent"] = c.parent /\ K["habit"] = c.habit
  BY <1>4
<1>6. DOMAIN r = {"type", "parent", "habit", "live"}
  BY <1>1 DEF NodeRow
<1>7. DOMAIN m = {"type", "parent", "habit", "live"}
  BY <1>3, <1>6
<1>8. /\ m.type = IF "type" \in W THEN K["type"] ELSE r.type
      /\ m.parent = IF "parent" \in W THEN K["parent"] ELSE r.parent
      /\ m.habit = IF "habit" \in W THEN K["habit"] ELSE r.habit
      /\ m.live = IF "live" \in W THEN K["live"] ELSE r.live
  BY <1>3, <1>6
<1>9. m.live = r.live
  BY <1>2, <1>5, <1>8
<1>10. /\ m.type \in NodeTypes /\ m.parent \in Ids /\ m.habit \in Habits \cup {None} /\ m.live \in BOOLEAN
  <2>1. "task" \in NodeTypes
    BY DEF NodeTypes
  <2>. QED BY <1>1, <1>2, <1>5, <1>8, <1>9, <2>1, CommandType DEF NodeRow
<1>11. m = [type |-> m.type, parent |-> m.parent, habit |-> m.habit, live |-> m.live]
  BY <1>3, <1>7
<1>12. m \in NodeRow
  BY <1>10, <1>11 DEF NodeRow
<1>13. c.verb = "move" =>
         /\ DOMAIN K = {"parent"}
         /\ m.type = r.type /\ m.habit = r.habit
         /\ m.parent = IF "parent" \in W THEN c.parent ELSE r.parent
  BY <1>2, <1>5, <1>8
<1>14. c.verb = "retype" =>
         /\ DOMAIN K = {"type"}
         /\ m.parent = r.parent /\ m.habit = r.habit
         /\ m.type = IF "type" \in W THEN c.type ELSE r.type
  BY <1>2, <1>5, <1>8
<1>15. c.verb = "promote" =>
         /\ DOMAIN K = {"type", "parent", "habit"}
         /\ m.type = IF "type" \in W THEN "task" ELSE r.type
         /\ m.parent = IF "parent" \in W THEN c.parent ELSE r.parent
         /\ m.habit = IF "habit" \in W THEN c.habit ELSE r.habit
  BY <1>5, <1>8
<1>. QED BY <1>2, <1>9, <1>12, <1>13, <1>14, <1>15 DEF m, W, K, r

-----------------------------------------------------------------------------
(* Types.                                                                     *)

\* The member of a singleton.
LEMMA OnlyOne ==
  ASSUME NEW x
  PROVE  Only({x}) = x
BY DEF Only

\* What a request sees is a tree index and a set of edges.
LEMMA SeenType ==
  ASSUME TypeOK, NEW q \in Requests
  PROVE  IsIndex(SeenTree(q)) /\ SeenGraph(q) \subseteq EdgeRow
<1>1. IsIndex(rows) /\ (\A t \in tree[q] : tree[q] = {t} /\ IsIndex(t))
  BY DEF TypeOK
<1>2. \A E \in graph[q] : graph[q] = {E} /\ E \subseteq EdgeRow
  BY DEF TypeOK
<1>3. LiveEdges \subseteq EdgeRow
  BY DEF TypeOK, LiveEdges
<1>4. IsIndex(SeenTree(q))
  <2>1. CASE tree[q] = {}
    BY <1>1, <2>1, LiveIndex DEF SeenTree
  <2>2. CASE tree[q] # {}
    <3>1. PICK t : t \in tree[q]
      BY <2>2
    <3>. QED BY <1>1, <2>2, <3>1, OnlyOne DEF SeenTree
  <2>. QED BY <2>1, <2>2
<1>5. SeenGraph(q) \subseteq EdgeRow
  <2>1. CASE graph[q] = {}
    BY <1>3, <2>1 DEF SeenGraph
  <2>2. CASE graph[q] # {}
    <3>1. PICK E : E \in graph[q]
      BY <2>2
    <3>. QED BY <1>2, <2>2, <3>1, OnlyOne DEF SeenGraph
  <2>. QED BY <2>1, <2>2
<1>. QED BY <1>4, <1>5

\* The tables keep their types in every write.
LEMMA WriteType ==
  ASSUME TypeOK, NEW q \in Requests, NEW x \in cur[q], Write(q, x.cmd, x.hlc),
         Found(x.cmd)
  PROVE  /\ IsIndex(rows')
         /\ DOMAIN edges' \subseteq EdgeIds /\ edges' \in [DOMAIN edges' -> EdgeRow]
         /\ version' \in [Nodes -> [Columns -> Nat]]
         /\ split' \in BOOLEAN
<1>. DEFINE c == x.cmd
            h == x.hlc
            r == rows
<1>1. c \in Commands /\ h \in 1 .. MaxCommands /\ h \in Nat
  <2>1. x \in Pending
    BY DEF TypeOK
  <2>. QED BY <2>1, StructureAssumption DEF Pending
<1>2. /\ IsIndex(rows) /\ DOMAIN edges \subseteq EdgeIds /\ edges \in [DOMAIN edges -> EdgeRow]
      /\ version \in [Nodes -> [Columns -> Nat]] /\ split \in BOOLEAN
  BY DEF TypeOK
<1>3. Write(q, c, h)
  OBVIOUS
<1>4. /\ c.verb \in {"move", "retype", "promote", "delete"} => c.node \in DOMAIN rows
      /\ c.verb = "unlink" => c.edge \in DOMAIN edges
  BY DEF Found
<1>. HIDE DEF c, h
<1>5. CASE c.verb = "create" /\ WriteCreate(c)
  <2>1. rows' = [n \in DOMAIN rows \cup {c.node} |-> IF n = c.node THEN NewRow(c) ELSE rows[n]]
    BY <1>5 DEF WriteCreate
  <2>2. NewRow(c) \in NodeRow /\ c.node \in Nodes
    BY <1>1, <1>5, CommandType DEF NewRow, NodeRow
  <2>3. IsIndex(rows')
    BY <1>2, <2>1, <2>2 DEF IsIndex
  <2>. QED BY <1>2, <1>5, <2>3 DEF WriteCreate
<1>6. CASE c.verb \in {"move", "retype", "promote"} /\ WriteUpdate(c, h)
  <2>1. c.node \in DOMAIN rows /\ c.node \in Nodes
    BY <1>2, <1>4, <1>6 DEF IsIndex
  <2>2. Merged(c, h) \in NodeRow
    BY <1>1, <1>2, <1>6, <2>1, MergedRow
  <2>3. rows' = [rows EXCEPT ![c.node] = Merged(c, h)]
    BY <1>6 DEF WriteUpdate
  <2>4. IsIndex(rows')
    BY <1>2, <2>1, <2>2, <2>3 DEF IsIndex
  <2>5. version' \in [Nodes -> [Columns -> Nat]]
    <3>1. version' = [version EXCEPT ![c.node] =
                   [f \in Columns |-> IF f \in Winning(c, h) THEN h ELSE version[c.node][f]]]
      BY <1>6 DEF WriteUpdate
    <3>2. [f \in Columns |-> IF f \in Winning(c, h) THEN h ELSE version[c.node][f]] \in [Columns -> Nat]
      BY <1>1, <1>2, <2>1
    <3>. QED BY <1>2, <2>1, <3>1, <3>2
  <2>6. split' \in BOOLEAN /\ UNCHANGED edges
    BY <1>6 DEF WriteUpdate
  <2>. QED BY <1>2, <2>4, <2>5, <2>6
<1>7. CASE c.verb = "delete" /\ WriteDelete(q, c)
  <2>. DEFINE gone == Subtree(SeenTree(q), c.node)
  <2>1. rows' = [n \in DOMAIN rows |-> IF n \in gone THEN [rows[n] EXCEPT !.live = FALSE] ELSE rows[n]]
    BY <1>7 DEF WriteDelete
  <2>. HIDE DEF gone
  <2>2. \A n \in DOMAIN rows : [rows[n] EXCEPT !.live = FALSE] \in NodeRow
    BY <1>2 DEF IsIndex, NodeRow
  <2>3. IsIndex(rows')
    BY <1>2, <2>1, <2>2 DEF IsIndex
  <2>. QED BY <1>2, <1>7, <2>3 DEF WriteDelete
<1>8. CASE c.verb = "link" /\ WriteLink(c)
  <2>1. edges' = [e \in DOMAIN edges \cup {c.edge} |->
                 IF e = c.edge THEN [pred |-> c.pred, succ |-> c.succ, live |-> TRUE] ELSE edges[e]]
    BY <1>8 DEF WriteLink
  <2>2. c.edge \in EdgeIds /\ [pred |-> c.pred, succ |-> c.succ, live |-> TRUE] \in EdgeRow
    BY <1>1, <1>8, CommandType DEF EdgeRow
  <2>3. DOMAIN edges' \subseteq EdgeIds /\ edges' \in [DOMAIN edges' -> EdgeRow]
    BY <1>2, <2>1, <2>2
  <2>. QED BY <1>2, <1>8, <2>3 DEF WriteLink
<1>9. CASE c.verb = "unlink" /\ WriteUnlink(c)
  <2>1. edges' = [edges EXCEPT ![c.edge].live = FALSE]
    BY <1>9 DEF WriteUnlink
  <2>2. [edges[c.edge] EXCEPT !.live = FALSE] \in EdgeRow
    BY <1>2, <1>4, <1>9 DEF EdgeRow
  <2>3. DOMAIN edges' = DOMAIN edges /\ edges' \in [DOMAIN edges' -> EdgeRow]
    BY <1>2, <1>4, <1>9, <2>1, <2>2
  <2>. QED BY <1>2, <1>9, <2>3 DEF WriteUnlink
<1>. QED BY <1>3, <1>5, <1>6, <1>7, <1>8, <1>9 DEF Write

\* The first state has its types.
LEMMA TypeInit == Init => TypeOK
<1>. SUFFICES ASSUME Init PROVE TypeOK
  OBVIOUS
<1>. USE DEF Init
<1>1. IsIndex(rows)
  BY StructureAssumption, InitialTree DEF IsIndex
<1>2. edges \in [DOMAIN edges -> EdgeRow] /\ DOMAIN edges \subseteq EdgeIds
  OBVIOUS
<1>3. version \in [Nodes -> [Columns -> Nat]]
  OBVIOUS
<1>4. /\ DOMAIN tree = Requests /\ DOMAIN graph = Requests
      /\ \A q \in Requests : tree[q] = {} /\ graph[q] = {} /\ cur[q] = {}
      /\ cur \in [Requests -> SUBSET Pending]
  OBVIOUS
<1>. QED BY <1>1, <1>2, <1>3, <1>4 DEF TypeOK

\* Reading a command types it; its verdict is one of three.
LEMMA ReadType ==
  ASSUME TypeOK, NEW q \in Requests, Read(q)
  PROVE  TypeOK'
<1>1. PICK c \in Commands, h \in (1 .. MaxCommands) \ minted :
        /\ minted' = minted \cup {h}
        /\ cur' = [cur EXCEPT ![q] = {[cmd |-> c, hlc |-> h, verdict |-> Verdict(q, c)]}]
        /\ tree' = [tree EXCEPT ![q] = IF ReadsTree(c) THEN {SeenTree(q)} ELSE tree[q]]
        /\ graph' = [graph EXCEPT ![q] =
                      IF ReadsTree(c) /\ c.verb = "link" THEN {SeenGraph(q)} ELSE graph[q]]
  BY DEF Read
<1>2. UNCHANGED <<rows, edges, version, open, overlapped, split>>
  BY DEF Read
<1>3. [cmd |-> c, hlc |-> h, verdict |-> Verdict(q, c)] \in Pending
  BY <1>1 DEF Pending, Verdict
<1>4. IsIndex(SeenTree(q)) /\ SeenGraph(q) \subseteq EdgeRow
  BY SeenType
<1>5. /\ DOMAIN tree' = Requests
      /\ \A p \in Requests : \A t \in tree'[p] : tree'[p] = {t} /\ IsIndex(t)
  BY <1>1, <1>4 DEF TypeOK
<1>6. /\ DOMAIN graph' = Requests
      /\ \A p \in Requests : \A E \in graph'[p] : graph'[p] = {E} /\ E \subseteq EdgeRow
  BY <1>1, <1>4 DEF TypeOK
<1>7. /\ cur' \in [Requests -> SUBSET Pending]
      /\ \A p \in Requests : \A x \in cur'[p] : cur'[p] = {x}
  BY <1>1, <1>3 DEF TypeOK
<1>8. minted' \in SUBSET (1 .. MaxCommands)
  BY <1>1 DEF TypeOK
<1>9. /\ IsIndex(rows')
      /\ DOMAIN edges' \subseteq EdgeIds /\ edges' \in [DOMAIN edges' -> EdgeRow]
      /\ version' \in [Nodes -> [Columns -> Nat]]
      /\ open' \in SUBSET Requests /\ overlapped' \in BOOLEAN /\ split' \in BOOLEAN
  BY <1>2 DEF TypeOK
<1>. QED BY <1>5, <1>6, <1>7, <1>8, <1>9 DEF TypeOK

\* The memos after a command: kept or dropped.
LEMMA MemoType ==
  ASSUME TypeOK, NEW q \in Requests, NEW c, Invalidate(q, c) \/ UNCHANGED <<tree, graph>>
  PROVE  /\ DOMAIN tree' = Requests /\ DOMAIN graph' = Requests
         /\ \A p \in Requests : tree'[p] \in {tree[p], {}} /\ graph'[p] \in {graph[p], {}}
BY DEF TypeOK, Invalidate

\* A commit keeps the types.
LEMMA CommitType ==
  ASSUME TypeOK, Finds, NEW q \in Requests, Commit(q)
  PROVE  TypeOK'
<1>1. PICK x \in cur[q] :
        \/ Invalidate(q, x.cmd) /\ UNCHANGED <<rows, edges, version, split>>
        \/ UNCHANGED <<rows, edges, version, split, tree, graph>>
        \/ x.verdict = "write" /\ Write(q, x.cmd, x.hlc) /\ Invalidate(q, x.cmd)
  BY DEF Commit
<1>2. cur' = [cur EXCEPT ![q] = {}] /\ UNCHANGED <<open, minted, overlapped>>
  BY DEF Commit
<1>3. /\ IsIndex(rows')
      /\ DOMAIN edges' \subseteq EdgeIds /\ edges' \in [DOMAIN edges' -> EdgeRow]
      /\ version' \in [Nodes -> [Columns -> Nat]]
      /\ split' \in BOOLEAN
  <2>1. CASE UNCHANGED <<rows, edges, version, split>>
    BY <2>1 DEF TypeOK
  <2>2. CASE x.verdict = "write" /\ Write(q, x.cmd, x.hlc)
    BY <2>2, WriteType DEF Finds
  <2>. QED BY <1>1, <2>1, <2>2
<1>4. /\ DOMAIN tree' = Requests /\ DOMAIN graph' = Requests
      /\ \A p \in Requests : tree'[p] \in {tree[p], {}} /\ graph'[p] \in {graph[p], {}}
  BY <1>1, MemoType
<1>5. /\ \A p \in Requests : \A t \in tree'[p] : tree'[p] = {t} /\ IsIndex(t)
      /\ \A p \in Requests : \A E \in graph'[p] : graph'[p] = {E} /\ E \subseteq EdgeRow
  BY <1>4 DEF TypeOK
<1>6. /\ cur' \in [Requests -> SUBSET Pending]
      /\ \A p \in Requests : \A y \in cur'[p] : cur'[p] = {y}
  BY <1>2 DEF TypeOK
<1>7. open' \in SUBSET Requests /\ minted' \in SUBSET (1 .. MaxCommands) /\ overlapped' \in BOOLEAN
  BY <1>2 DEF TypeOK
<1>. QED BY <1>3, <1>4, <1>5, <1>6, <1>7 DEF TypeOK

\* So does every step.
LEMMA TypeStep ==
  ASSUME TypeOK, Finds, [Next]_vars
  PROVE  TypeOK'
<1>1. CASE UNCHANGED vars
  BY <1>1 DEF TypeOK, vars, request
<1>2. ASSUME NEW q \in Requests, Open(q) PROVE TypeOK'
  BY <1>2 DEF TypeOK, Open
<1>3. ASSUME NEW q \in Requests, Close(q) PROVE TypeOK'
  <2>1. /\ tree' = [tree EXCEPT ![q] = {}] /\ graph' = [graph EXCEPT ![q] = {}]
        /\ open' = open \ {q}
        /\ UNCHANGED <<rows, edges, version, cur, minted, overlapped, split>>
    BY <1>3 DEF Close
  <2>2. /\ DOMAIN tree' = Requests
        /\ \A p \in Requests : \A t \in tree'[p] : tree'[p] = {t} /\ IsIndex(t)
    BY <2>1 DEF TypeOK
  <2>3. /\ DOMAIN graph' = Requests
        /\ \A p \in Requests : \A E \in graph'[p] : graph'[p] = {E} /\ E \subseteq EdgeRow
    BY <2>1 DEF TypeOK
  <2>4. /\ IsIndex(rows')
        /\ DOMAIN edges' \subseteq EdgeIds /\ edges' \in [DOMAIN edges' -> EdgeRow]
        /\ version' \in [Nodes -> [Columns -> Nat]]
        /\ open' \in SUBSET Requests /\ overlapped' \in BOOLEAN /\ split' \in BOOLEAN
        /\ cur' \in [Requests -> SUBSET Pending]
        /\ \A p \in Requests : \A x \in cur'[p] : cur'[p] = {x}
        /\ minted' \in SUBSET (1 .. MaxCommands)
    BY <2>1 DEF TypeOK
  <2>. QED BY <2>2, <2>3, <2>4 DEF TypeOK
<1>4. ASSUME NEW q \in Requests, Read(q) PROVE TypeOK'
  BY <1>4, ReadType
<1>5. ASSUME NEW q \in Requests, Commit(q) PROVE TypeOK'
  BY <1>5, CommitType
<1>. QED BY <1>1, <1>2, <1>3, <1>4, <1>5 DEF Next

-----------------------------------------------------------------------------
(* The rows in hand.                                                          *)

\* No row or edge is ever removed from its table.
LEMMA RowsStay ==
  ASSUME TypeOK, Finds, [Next]_vars
  PROVE  DOMAIN rows \subseteq DOMAIN rows' /\ DOMAIN edges \subseteq DOMAIN edges'
<1>1. ASSUME NEW q \in Requests, Commit(q)
      PROVE  DOMAIN rows \subseteq DOMAIN rows' /\ DOMAIN edges \subseteq DOMAIN edges'
  <2>1. PICK x \in cur[q] :
          \/ UNCHANGED <<rows, edges>>
          \/ x.verdict = "write" /\ Write(q, x.cmd, x.hlc)
    BY <1>1 DEF Commit
  <2>2. /\ rows = [n \in DOMAIN rows |-> rows[n]]
        /\ edges = [e \in DOMAIN edges |-> edges[e]]
    BY DEF TypeOK, IsIndex
  <2>. QED BY <2>1, <2>2 DEF Write, WriteCreate, WriteUpdate, WriteDelete, WriteLink, WriteUnlink
<1>. QED BY <1>1 DEF Next, Open, Read, Close, vars

\* A command that is to write still finds its row or edge.
LEMMA FindsStep ==
  ASSUME TypeOK, Finds, [Next]_vars
  PROVE  Finds'
<1>1. DOMAIN rows \subseteq DOMAIN rows' /\ DOMAIN edges \subseteq DOMAIN edges'
  BY RowsStay
<1>2. ASSUME NEW p \in Requests, NEW x \in cur'[p], x.verdict = "write",
             \/ Found(x.cmd) \/ x \in cur[p]
      PROVE  Found(x.cmd)'
  <2>1. Found(x.cmd)
    BY <1>2 DEF Finds
  <2>. QED BY <1>1, <2>1 DEF Found
<1>3. ASSUME NEW p \in Requests, NEW x \in cur'[p], x.verdict = "write"
      PROVE  Found(x.cmd) \/ x \in cur[p]
  <2>1. CASE cur'[p] \subseteq cur[p]
    BY <2>1
  <2>2. ASSUME NEW q \in Requests, Read(q) PROVE Found(x.cmd) \/ x \in cur[p]
    <3>1. PICK c, h : cur' = [cur EXCEPT ![q] = {[cmd |-> c, hlc |-> h, verdict |-> Verdict(q, c)]}]
      BY <2>2 DEF Read
    <3>2. CASE p = q
      <4>1. x = [cmd |-> c, hlc |-> h, verdict |-> Verdict(q, c)]
        BY <3>1, <3>2 DEF TypeOK
      <4>. QED BY <1>3, <4>1 DEF Verdict
    <3>3. CASE p # q
      BY <3>1, <3>3 DEF TypeOK
    <3>. QED BY <3>2, <3>3
  <2>3. ASSUME NEW q \in Requests, Commit(q) PROVE cur'[p] \subseteq cur[p]
    BY <2>3 DEF Commit, TypeOK
  <2>. QED BY <2>1, <2>2, <2>3 DEF Next, Open, Close, vars, request
<1>. QED BY <1>2, <1>3 DEF Finds

\* A request that is not under way has nothing in hand.
LEMMA ClosedStep ==
  ASSUME TypeOK, Closed, [Next]_vars
  PROVE  Closed'
<1>1. ASSUME NEW p \in Requests \ open' PROVE tree'[p] = {} /\ graph'[p] = {} /\ cur'[p] = {}
  <2>1. CASE UNCHANGED vars
    BY <1>1, <2>1 DEF Closed, vars, request
  <2>2. ASSUME NEW q \in Requests, Open(q) PROVE tree'[p] = {} /\ graph'[p] = {} /\ cur'[p] = {}
    BY <1>1, <2>2 DEF Closed, Open
  <2>3. ASSUME NEW q \in Requests, Read(q) PROVE tree'[p] = {} /\ graph'[p] = {} /\ cur'[p] = {}
    <3>1. p # q /\ p \in Requests \ open
      BY <1>1, <2>3 DEF Read
    <3>. QED BY <2>3, <3>1 DEF Read, Closed, TypeOK
  <2>4. ASSUME NEW q \in Requests, Commit(q) PROVE tree'[p] = {} /\ graph'[p] = {} /\ cur'[p] = {}
    <3>1. p \in Requests \ open
      BY <1>1, <2>4 DEF Commit
    <3>2. PICK x \in cur[q] : Invalidate(q, x.cmd) \/ UNCHANGED <<tree, graph>>
      BY <2>4 DEF Commit
    <3>3. tree'[p] \in {tree[p], {}} /\ graph'[p] \in {graph[p], {}}
      BY <3>1, <3>2, MemoType
    <3>4. cur'[p] \subseteq cur[p]
      BY <2>4 DEF Commit, TypeOK
    <3>. QED BY <3>1, <3>3, <3>4 DEF Closed
  <2>5. ASSUME NEW q \in Requests, Close(q) PROVE tree'[p] = {} /\ graph'[p] = {} /\ cur'[p] = {}
    <3>1. CASE p = q
      BY <2>5, <3>1 DEF Close, TypeOK
    <3>2. CASE p # q
      BY <1>1, <2>5, <3>2 DEF Close, TypeOK, Closed
    <3>. QED BY <3>1, <3>2
  <2>. QED BY <2>1, <2>2, <2>3, <2>4, <2>5 DEF Next
<1>. QED BY <1>1 DEF Closed

-----------------------------------------------------------------------------
(* While one request is under way.                                            *)

\* With a memo of the present, what is seen is the present.
LEMMA SeenIs ==
  ASSUME NEW memo, NEW now, memo \subseteq {now}
  PROVE  (IF memo = {} THEN now ELSE Only(memo)) = now
<1>1. CASE memo = {}
  BY <1>1
<1>2. CASE memo # {}
  <2>1. memo = {now}
    BY <1>2
  <2>. QED BY <1>2, <2>1, OnlyOne
<1>. QED BY <1>1, <1>2

\* A request sees the tables as they are.
LEMMA Seen ==
  ASSUME Memo, NEW q \in Requests
  PROVE  SeenTree(q) = Live /\ SeenGraph(q) = LiveEdges
<1>1. tree[q] \subseteq {Live} /\ graph[q] \subseteq {LiveEdges}
  BY DEF Memo
<1>2. SeenTree(q) = Live
  BY <1>1, SeenIs DEF SeenTree, Live
<1>3. SeenGraph(q) = LiveEdges
  BY <1>1, SeenIs DEF SeenGraph
<1>. QED BY <1>2, <1>3

\* An accepted create, move, retype, promote or delete leaves sound rows.
LEMMA CreateSound ==
  ASSUME TypeOK, TypeOK', Memo, SoundRows(rows, split), NEW q \in Requests, NEW c,
         c.verb = "create", ~Converged(c), Accepted(q, c), WriteCreate(c)
  PROVE  SoundRows(rows', split')
<1>1. CheckNodeCreate(TreeIndex(rows), c.type, c.parent, c.habit) /\ c.node \notin DOMAIN rows
  BY Seen DEF Accepted, Converged, Live
<1>2. rows' = [n \in DOMAIN rows \cup {c.node} |-> IF n = c.node THEN NewRow(c) ELSE rows[n]]
  BY DEF WriteCreate
<1>3. /\ NewRow(c).live = TRUE /\ NewRow(c).type = c.type
      /\ NewRow(c).parent = c.parent /\ NewRow(c).habit = c.habit
  BY DEF NewRow
<1>4. /\ DOMAIN rows' = DOMAIN rows \cup {c.node} /\ rows'[c.node] = NewRow(c)
      /\ \A m \in DOMAIN rows : rows'[m] = rows[m]
  BY <1>1, <1>2
<1>5. IsIndex(rows) /\ IsIndex(rows')
  BY DEF TypeOK
<1>6. SoundRows(rows', split)
  BY <1>1, <1>3, <1>4, <1>5, CreateKeeps
<1>. QED BY <1>6 DEF WriteCreate

\* A delete leaves the tree sound: deleted rows hang where they hung.
LEMMA DeleteSound ==
  ASSUME TypeOK, TypeOK', Memo, SoundRows(rows, split), NEW q \in Requests, NEW c,
         WriteDelete(q, c)
  PROVE  SoundRows(rows', split')
<1>. DEFINE gone == Subtree(TreeIndex(rows), c.node)
<1>1. rows' = [n \in DOMAIN rows |-> IF n \in gone THEN [rows[n] EXCEPT !.live = FALSE] ELSE rows[n]]
  BY Seen DEF WriteDelete, Live
<1>2. IsIndex(rows) /\ IsIndex(rows')
  BY DEF TypeOK
<1>3. gone \subseteq DOMAIN rows
  BY DEF Subtree, TreeIndex
<1>. HIDE DEF gone
<1>4. \A m \in gone : ~rows'[m].live /\ rows'[m].parent = rows[m].parent
  <2>1. TAKE m \in gone
  <2>2. rows[m] \in NodeRow /\ rows'[m] = [rows[m] EXCEPT !.live = FALSE]
    BY <1>1, <1>2, <1>3 DEF IsIndex
  <2>. QED BY <2>2 DEF NodeRow
<1>5. DOMAIN rows' = DOMAIN rows /\ \A m \in DOMAIN rows \ gone : rows'[m] = rows[m]
  BY <1>1
<1>6. SoundRows(rows', split)
  BY <1>2, <1>4, <1>5, DeleteKeeps DEF gone
<1>. QED BY <1>6 DEF WriteDelete

\* An accepted move, retype or promote leaves sound rows.
LEMMA UpdateSound ==
  ASSUME TypeOK, TypeOK', Memo, SoundRows(rows, split), NEW q \in Requests,
         NEW c \in Commands, NEW h,
         c.verb \in {"move", "retype", "promote"}, Accepted(q, c), ~Fails(c, h), WriteUpdate(c, h)
  PROVE  SoundRows(rows', split')
<1>. DEFINE t == TreeIndex(rows)
            n == c.node
            r == rows[c.node]
            m == Merged(c, h)
            W == Winning(c, h)
<1>1. IsIndex(rows) /\ IsIndex(rows')
  BY DEF TypeOK
<1>2. /\ c.verb = "move" => CheckNodeMove(t, n, c.parent)
      /\ c.verb = "retype" => CheckNodeRetype(t, n, c.type)
      /\ c.verb = "promote" => CheckPromote(t, n, c.parent, c.habit)
  BY Seen DEF Accepted, Live
<1>3. /\ IsIndex(t)
      /\ \A k : k \in DOMAIN t <=> k \in DOMAIN rows /\ rows[k].live
      /\ \A k \in DOMAIN t : t[k] = rows[k]
  BY <1>1, LiveIndex
<1>4. n \in DOMAIN t /\ n \in DOMAIN rows /\ t[n] = r
  BY <1>2, <1>3 DEF CheckNodeMove, ValidMove, CheckNodeRetype, CheckPromote
<1>5. /\ m.live = r.live
      /\ W \subseteq DOMAIN Candidate(c)
      /\ c.verb = "move" =>
                  /\ DOMAIN Candidate(c) = {"parent"}
                  /\ m.type = r.type /\ m.habit = r.habit
                  /\ m.parent = IF "parent" \in W THEN c.parent ELSE r.parent
      /\ c.verb = "retype" =>
                  /\ DOMAIN Candidate(c) = {"type"}
                  /\ m.parent = r.parent /\ m.habit = r.habit
                  /\ m.type = IF "type" \in W THEN c.type ELSE r.type
      /\ c.verb = "promote" =>
                  /\ DOMAIN Candidate(c) = {"type", "parent", "habit"}
                  /\ m.type = IF "type" \in W THEN "task" ELSE r.type
                  /\ m.parent = IF "parent" \in W THEN c.parent ELSE r.parent
                  /\ m.habit = IF "habit" \in W THEN c.habit ELSE r.habit
  BY <1>1, <1>4, MergedRow
<1>6. /\ ValidParent(t, r.type, r.parent)
      /\ r.parent # n
      /\ \A k \in DOMAIN t : t[k].parent = n => r.type \in AllowedParents[t[k].type]
      /\ ~split => JustifiedHere(r)
  BY <1>1, <1>4, SameRowFits
<1>7. \A k \in DOMAIN t : ValidParent(t, t[k].type, t[k].parent)
  BY DEF SoundRows, HierarchyHolds
<1>8. split' = (split \/ W \notin {{}, DOMAIN Candidate(c)})
  BY DEF WriteUpdate
<1>9. /\ DOMAIN rows' = DOMAIN rows /\ rows'[n] = m
      /\ \A k \in DOMAIN rows \ {n} : rows'[k] = rows[k]
  <2>1. rows' = [rows EXCEPT ![n] = m]
    BY DEF WriteUpdate
  <2>. HIDE DEF m, n
  <2>. QED BY <1>1, <1>4, <2>1 DEF IsIndex
<1>10. /\ "type" \in W \/ "parent" \in W => HierarchyTrigger(rows, m)
  BY DEF Fails
<1>. HIDE DEF t, n, r, m, W
\* The new row keeps the place and the children of the old one, and is justified
\* as a task when the update is whole.
<1>. DEFINE Fits == /\ ValidParent(t, m.type, m.parent) /\ m.parent # n
                    /\ \A k \in DOMAIN t : t[k].parent = n => m.type \in AllowedParents[t[k].type]
                    /\ m.type = "vision" => r.type = "vision" \/ VisionRoom(t)
                    /\ ~split' => ~split /\ JustifiedHere(m)
<1>11. ASSUME m.type = r.type, m.parent = r.parent, m.habit = r.habit PROVE Fits
  <2>1. ~split' => ~split
    BY <1>8
  <2>2. JustifiedHere(m) <=> JustifiedHere(r)
    BY <1>11 DEF JustifiedHere
  <2>. QED BY <1>6, <1>11, <2>1, <2>2
<1>12. ASSUME c.verb = "move" PROVE Fits
  <2>1. CASE "parent" \in W
    <3>1. m.type = r.type /\ m.parent = c.parent /\ m.habit = r.habit
      BY <1>5, <1>12, <2>1
    <3>2. ValidParent(t, r.type, c.parent) /\ TaskJustified(t, r.type, c.parent, r.habit)
      BY <1>2, <1>4, <1>12 DEF CheckNodeMove, ValidMove
    <3>3. c.parent # n
      BY <1>2, <1>4, <1>12 DEF CheckNodeMove, ValidMove, Subtree
    <3>4. JustifiedHere(m)
      BY <1>3, <1>7, <3>1, <3>2, ParentJustifies DEF JustifiedHere
    <3>. QED BY <1>6, <1>8, <3>1, <3>2, <3>3, <3>4
  <2>2. CASE "parent" \notin W
    BY <1>5, <1>11, <1>12, <2>2
  <2>. QED BY <2>1, <2>2
<1>13. ASSUME c.verb = "retype" PROVE Fits
  <2>1. CASE "type" \in W /\ r.type # c.type
    <3>1. m.type = c.type /\ m.parent = r.parent /\ m.habit = r.habit
      BY <1>5, <1>13, <2>1
    <3>2. /\ c.type = "vision" => VisionRoom(t)
          /\ ValidParent(t, c.type, r.parent)
          /\ \A k \in DOMAIN t : t[k].parent = n => c.type \in AllowedParents[t[k].type]
          /\ TaskJustified(t, c.type, r.parent, r.habit)
      BY <1>2, <1>4, <1>13, <2>1 DEF CheckNodeRetype, Children
    <3>3. JustifiedHere(m)
      BY <1>3, <1>7, <3>1, <3>2, ParentJustifies DEF JustifiedHere
    <3>. QED BY <1>6, <1>8, <3>1, <3>2, <3>3
  <2>2. CASE ~("type" \in W /\ r.type # c.type)
    BY <1>5, <1>11, <1>13, <2>2
  <2>. QED BY <2>1, <2>2
<1>14. ASSUME c.verb = "promote" PROVE Fits
  <2>1. /\ r.type = "activity" /\ ValidParent(t, "task", c.parent)
        /\ TaskJustified(t, "task", c.parent, c.habit)
    BY <1>2, <1>4, <1>14 DEF CheckPromote
  <2>2. r.parent = None /\ \A k \in DOMAIN t : t[k].parent # n
    <3>1. \A k \in DOMAIN t : "activity" \notin AllowedParents[t[k].type]
      BY <1>3, IndexFacts DEF AllowedParents, NodeTypes
    <3>. QED BY <1>6, <2>1, <3>1 DEF ValidParent, AllowedParents
  <2>3. m.parent # n
    <3>1. c.parent # n
      BY <1>3, <1>4, <2>1, IndexFacts DEF ValidParent, AllowedParents
    <3>. QED BY <1>5, <1>6, <1>14, <3>1
  <2>4. ValidParent(t, m.type, m.parent)
    <3>1. CASE "type" \in W
      <4>1. m.type = "task" /\ m.parent \in {None, c.parent}
        BY <1>5, <1>14, <2>2, <3>1
      <4>. QED BY <2>1, <4>1 DEF ValidParent, ParentlessAllowed
    <3>2. CASE "type" \notin W
      <4>1. m.type = "activity"
        BY <1>5, <1>14, <2>1, <3>2
      <4>2. m.parent = None
        <5>1. CASE "parent" \in W
          BY <1>10, <4>1, <5>1 DEF HierarchyTrigger, AllowedParents
        <5>2. CASE "parent" \notin W
          BY <1>5, <1>14, <2>2, <5>2
        <5>. QED BY <5>1, <5>2
      <4>. QED BY <4>1, <4>2 DEF ValidParent, ParentlessAllowed
    <3>. QED BY <3>1, <3>2
  <2>5. m.type # "vision"
    BY <1>5, <1>14, <2>1
  <2>6. ~split' => ~split /\ JustifiedHere(m)
    <3>1. SUFFICES ASSUME ~split' PROVE JustifiedHere(m)
      BY <1>8, <3>1
    <3>2. CASE W = {}
      BY <1>5, <1>14, <2>1, <3>2 DEF JustifiedHere
    <3>3. CASE W = {"type", "parent", "habit"}
      <4>1. m.type = "task" /\ m.parent = c.parent /\ m.habit = c.habit
        BY <1>5, <1>14, <3>3
      <4>. QED BY <1>3, <1>7, <2>1, <4>1, ParentJustifies DEF JustifiedHere
    <3>. QED BY <1>5, <1>8, <1>14, <3>1, <3>2, <3>3
  <2>. QED BY <2>2, <2>3, <2>4, <2>5, <2>6
<1>15. Fits
  BY <1>12, <1>13, <1>14
<1>16. /\ rows'[n].live = rows[n].live
       /\ ValidParent(TreeIndex(rows), rows'[n].type, rows'[n].parent) /\ rows'[n].parent # n
       /\ \A k \in DOMAIN TreeIndex(rows) :
            TreeIndex(rows)[k].parent = n => rows'[n].type \in AllowedParents[TreeIndex(rows)[k].type]
       /\ rows'[n].type = "vision" => TreeIndex(rows)[n].type = "vision" \/ VisionRoom(TreeIndex(rows))
       /\ ~split' => ~split /\ JustifiedHere(rows'[n])
       /\ n \in DOMAIN TreeIndex(rows)
  BY <1>4, <1>5, <1>9, <1>15 DEF t, r, n
<1>. HIDE DEF Fits
<1>. QED BY <1>1, <1>9, <1>16, UpdateKeeps

\* There are finitely many live dependencies.
LEMMA LiveEdgesFinite ==
  ASSUME TypeOK
  PROVE  IsFiniteSet(LiveEdges)
<1>. DEFINE D == {e \in DOMAIN edges : edges[e].live}
            f == [e \in D |-> edges[e]]
<1>1. IsFiniteSet(D)
  BY StructureAssumption, FS_Subset DEF TypeOK
<1>2. LiveEdges = {edges[e] : e \in D}
  BY DEF LiveEdges
<1>3. f \in Surjection(D, LiveEdges)
  BY <1>2 DEF Surjection
<1>. HIDE DEF f, D
<1>. QED BY <1>1, <1>3, FS_Surjection

\* edge.create and edge.delete leave the live dependencies grounded.
LEMMA EdgesSound ==
  ASSUME TypeOK, Memo, Grounded(LiveEdges, Nodes), NEW q \in Requests, NEW c,
         \/ c.verb = "link" /\ Accepted(q, c) /\ ~Converged(c) /\ WriteLink(c)
         \/ Found(c) /\ c.verb = "unlink" /\ WriteUnlink(c)
  PROVE  Grounded(LiveEdges', Nodes)
<1>1. edges \in [DOMAIN edges -> EdgeRow]
  BY DEF TypeOK
<1>2. CASE c.verb = "link" /\ Accepted(q, c) /\ ~Converged(c) /\ WriteLink(c)
  <2>. DEFINE d == [pred |-> c.pred, succ |-> c.succ, live |-> TRUE]
  <2>1. ~WouldCreateCycle(LiveEdges, c.pred, c.succ) /\ c.edge \notin DOMAIN edges
    BY <1>2, Seen DEF Accepted, ValidEdge, Converged
  <2>2. edges' = [e \in DOMAIN edges \cup {c.edge} |-> IF e = c.edge THEN d ELSE edges[e]]
    BY <1>2 DEF WriteLink
  <2>3. d.pred = c.pred /\ d.succ = c.succ /\ d.live = TRUE
    OBVIOUS
  <2>. HIDE DEF d
  <2>4. LiveEdges' = LiveEdges \cup {d}
    BY <2>1, <2>2, <2>3 DEF LiveEdges
  <2>5. Grounded(LiveEdges \cup {d}, Nodes)
    BY <2>1, <2>3, LiveEdgesFinite, GroundedAdd
  <2>. QED BY <2>4, <2>5
<1>3. CASE Found(c) /\ c.verb = "unlink" /\ WriteUnlink(c)
  <2>1. edges' = [edges EXCEPT ![c.edge].live = FALSE] /\ c.edge \in DOMAIN edges
    BY <1>3 DEF WriteUnlink, Found
  <2>2. ASSUME NEW y \in LiveEdges' PROVE y \in LiveEdges
    <3>1. PICK e \in DOMAIN edges' : edges'[e].live /\ y = edges'[e]
      BY <2>2 DEF LiveEdges
    <3>2. e \in DOMAIN edges
      BY <1>1, <2>1, <3>1
    <3>3. e # c.edge
      <4>1. SUFFICES ASSUME e = c.edge PROVE FALSE
        BY <4>1
      <4>2. edges[e] \in EdgeRow /\ edges'[e] = [edges[e] EXCEPT !.live = FALSE]
        BY <1>1, <2>1, <4>1
      <4>. QED BY <3>1, <4>2 DEF EdgeRow
    <3>4. edges'[e] = edges[e]
      BY <1>1, <2>1, <3>2, <3>3
    <3>. QED BY <3>1, <3>2, <3>4 DEF LiveEdges
  <2>. QED BY <2>2, GroundedFewer
<1>. QED BY <1>2, <1>3

\* The command a request has in hand commits on the tables it was checked on.
LEMMA CommitSerial ==
  ASSUME TypeOK, TypeOK', Finds, Closed, Closed', Serial, NEW q \in Requests, Commit(q)
  PROVE  Serial'
<1>1. PICK x \in cur[q] :
        \/ Invalidate(q, x.cmd) /\ UNCHANGED <<rows, edges, split>>
        \/ UNCHANGED <<rows, edges, split, tree, graph>>
        \/ /\ x.verdict = "write" /\ ~Fails(x.cmd, x.hlc)
           /\ Write(q, x.cmd, x.hlc) /\ Invalidate(q, x.cmd)
  BY DEF Commit
<1>2. cur' = [cur EXCEPT ![q] = {}] /\ open' = open
  BY DEF Commit
<1>3. q \in open
  BY <1>1 DEF Closed
<1>4. /\ OneOpen /\ Memo /\ SoundRows(rows, split) /\ Grounded(LiveEdges, Nodes)
      /\ x.verdict = "write" => ~Converged(x.cmd) /\ Accepted(q, x.cmd) /\ Found(x.cmd)
  BY DEF Serial, StillAccepted, Finds
<1>. DEFINE c == x.cmd
            h == x.hlc
<1>5. c \in Commands
  <2>1. x \in Pending
    BY DEF TypeOK
  <2>. QED BY <2>1 DEF Pending
<1>6. OneOpen'
  BY <1>2, <1>4 DEF OneOpen
<1>7. ASSUME NEW p \in Requests PROVE cur'[p] = {} /\ (p # q => tree'[p] = {} /\ graph'[p] = {})
  <2>1. CASE p = q
    BY <1>2, <2>1 DEF TypeOK
  <2>2. CASE p # q
    <3>1. p \in Requests \ open'
      BY <1>2, <1>3, <1>4, <2>2 DEF OneOpen
    <3>. QED BY <3>1 DEF Closed
  <2>. QED BY <2>1, <2>2
<1>8. StillAccepted'
  BY <1>7 DEF StillAccepted
<1>9. CASE x.verdict = "write" /\ ~Fails(c, h) /\ Write(q, c, h) /\ Invalidate(q, c)
  <2>1. ~Converged(c) /\ Accepted(q, c) /\ Found(c)
    BY <1>4, <1>9
  <2>2. /\ tree'[q] = IF c.verb \in {"link", "unlink"} THEN tree[q] ELSE {}
        /\ graph'[q] = IF c.verb \in {"link", "unlink", "create", "promote"} THEN {} ELSE graph[q]
    BY <1>9 DEF Invalidate, TypeOK
  <2>. HIDE DEF c, h
  <2>. DEFINE Kept == /\ SoundRows(rows', split') /\ Grounded(LiveEdges', Nodes)
                      /\ tree'[q] \subseteq {Live'} /\ graph'[q] \subseteq {LiveEdges'}
  <2>3. tree[q] \subseteq {Live} /\ graph[q] \subseteq {LiveEdges}
    BY <1>4 DEF Memo
  <2>4. ASSUME c.verb = "create" /\ WriteCreate(c) PROVE Kept
    <3>1. SoundRows(rows', split')
      BY <1>4, <2>1, <2>4, CreateSound
    <3>2. LiveEdges' = LiveEdges
      BY <2>4 DEF WriteCreate, LiveEdges
    <3>. QED BY <1>4, <2>2, <2>4, <3>1, <3>2
  <2>5. ASSUME c.verb \in {"move", "retype", "promote"} /\ WriteUpdate(c, h) PROVE Kept
    <3>1. SoundRows(rows', split')
      BY <1>4, <1>5, <1>9, <2>1, <2>5, UpdateSound DEF c, h
    <3>2. LiveEdges' = LiveEdges
      BY <2>5 DEF WriteUpdate, LiveEdges
    <3>. QED BY <1>4, <2>2, <2>3, <2>5, <3>1, <3>2
  <2>6. ASSUME c.verb = "delete" /\ WriteDelete(q, c) PROVE Kept
    <3>1. SoundRows(rows', split')
      BY <1>4, <2>6, DeleteSound
    <3>2. LiveEdges' = LiveEdges
      BY <2>6 DEF WriteDelete, LiveEdges
    <3>. QED BY <1>4, <2>2, <2>3, <2>6, <3>1, <3>2
  <2>7. ASSUME \/ c.verb = "link" /\ WriteLink(c)
               \/ c.verb = "unlink" /\ WriteUnlink(c)
        PROVE  Kept
    <3>1. Grounded(LiveEdges', Nodes)
      BY <1>4, <2>1, <2>7, EdgesSound
    <3>2. rows' = rows /\ split' = split
      BY <2>7 DEF WriteLink, WriteUnlink
    <3>3. Live' = Live
      BY <3>2 DEF Live
    <3>. QED BY <1>4, <2>2, <2>3, <2>7, <3>1, <3>2, <3>3
  <2>8. Kept
    <3>. HIDE DEF Kept
    <3>. QED BY <1>9, <2>4, <2>5, <2>6, <2>7 DEF Write
  <2>9. Memo'
    BY <1>7, <2>8 DEF Memo
  <2>. QED BY <1>6, <1>8, <2>8, <2>9 DEF Serial
<1>10. CASE UNCHANGED <<rows, edges, split>> /\ (Invalidate(q, c) \/ UNCHANGED <<tree, graph>>)
  <2>1. Live' = Live /\ LiveEdges' = LiveEdges
    BY <1>10 DEF Live, LiveEdges
  <2>2. \A p \in Requests : tree'[p] \in {tree[p], {}} /\ graph'[p] \in {graph[p], {}}
    BY <1>10, MemoType
  <2>3. Memo'
    BY <1>4, <2>1, <2>2 DEF Memo
  <2>. QED BY <1>4, <1>6, <1>8, <1>10, <2>1, <2>3 DEF Serial
<1>. QED BY <1>1, <1>9, <1>10

\* The checks of a read are made on the tables.
LEMMA ReadSerial ==
  ASSUME TypeOK, TypeOK', Closed', Serial, NEW q \in Requests, Read(q)
  PROVE  Serial'
<1>1. PICK c \in Commands, h \in (1 .. MaxCommands) \ minted :
        /\ cur' = [cur EXCEPT ![q] = {[cmd |-> c, hlc |-> h, verdict |-> Verdict(q, c)]}]
        /\ tree' = [tree EXCEPT ![q] = IF ReadsTree(c) THEN {SeenTree(q)} ELSE tree[q]]
        /\ graph' = [graph EXCEPT ![q] =
                      IF ReadsTree(c) /\ c.verb = "link" THEN {SeenGraph(q)} ELSE graph[q]]
  BY DEF Read
<1>2. UNCHANGED <<rows, edges, open, split>> /\ q \in open
  BY DEF Read
<1>3. /\ OneOpen /\ Memo /\ StillAccepted /\ SoundRows(rows, split) /\ Grounded(LiveEdges, Nodes)
  BY DEF Serial
<1>4. SeenTree(q) = Live /\ SeenGraph(q) = LiveEdges
  BY <1>3, Seen
<1>5. Live' = Live /\ LiveEdges' = LiveEdges
  BY <1>2 DEF Live, LiveEdges
<1>6. ASSUME NEW p \in Requests PROVE tree'[p] \subseteq {Live} /\ graph'[p] \subseteq {LiveEdges}
  <2>1. tree[p] \subseteq {Live} /\ graph[p] \subseteq {LiveEdges}
    BY <1>3 DEF Memo
  <2>. QED BY <1>1, <1>4, <2>1 DEF TypeOK
<1>7. Memo'
  BY <1>5, <1>6 DEF Memo
<1>8. SeenTree(q)' = Live /\ SeenGraph(q)' = LiveEdges
  <2>1. SeenTree(q)' = IF tree'[q] = {} THEN Live ELSE Only(tree'[q])
    BY <1>2 DEF SeenTree, Live
  <2>2. SeenGraph(q)' = IF graph'[q] = {} THEN LiveEdges ELSE Only(graph'[q])
    BY <1>5 DEF SeenGraph
  <2>3. tree'[q] \subseteq {Live} /\ graph'[q] \subseteq {LiveEdges}
    BY <1>6
  <2>4. (IF tree'[q] = {} THEN Live ELSE Only(tree'[q])) = Live
    BY <2>3, SeenIs
  <2>5. (IF graph'[q] = {} THEN LiveEdges ELSE Only(graph'[q])) = LiveEdges
    BY <2>3, SeenIs
  <2>. QED BY <2>1, <2>2, <2>4, <2>5
<1>9. ASSUME NEW p \in Requests, NEW x \in cur'[p], x.verdict = "write"
      PROVE  ~Converged(x.cmd)' /\ Accepted(p, x.cmd)'
  <2>1. p = q
    <3>1. p \in open'
      BY <1>9 DEF Closed
    <3>. QED BY <1>2, <1>3, <3>1 DEF OneOpen
  <2>2. x = [cmd |-> c, hlc |-> h, verdict |-> Verdict(q, c)]
    BY <1>1, <1>9, <2>1 DEF TypeOK
  <2>3. x.cmd = c /\ ~Converged(c) /\ Accepted(q, c)
    BY <1>9, <2>2 DEF Verdict
  <2>4. ~Converged(c)'
    BY <1>2, <2>3 DEF Converged
  <2>5. Accepted(q, c)'
    BY <1>4, <1>8, <2>3 DEF Accepted
  <2>. QED BY <2>1, <2>3, <2>4, <2>5
<1>. QED BY <1>2, <1>3, <1>5, <1>7, <1>9 DEF Serial, OneOpen, StillAccepted

\* Nothing that the invariant reads has changed but who is under way.
LEMMA SerialStays ==
  ASSUME Serial, OneOpen', UNCHANGED <<rows, edges, tree, graph, cur, split>>
  PROVE  Serial'
<1>1. Live' = Live /\ LiveEdges' = LiveEdges
  BY DEF Live, LiveEdges
<1>2. Memo'
  BY <1>1 DEF Memo, Serial
<1>3. \A p \in Requests : SeenTree(p)' = SeenTree(p) /\ SeenGraph(p)' = SeenGraph(p)
  BY <1>1 DEF SeenTree, SeenGraph, Live
<1>4. ASSUME NEW p \in Requests, NEW x \in cur'[p], x.verdict = "write"
      PROVE  ~Converged(x.cmd)' /\ Accepted(p, x.cmd)'
  <2>1. ~Converged(x.cmd) /\ Accepted(p, x.cmd)
    BY <1>4 DEF Serial, StillAccepted
  <2>2. ~Converged(x.cmd)'
    BY <2>1 DEF Converged
  <2>. QED BY <1>3, <2>1, <2>2 DEF Accepted
<1>5. StillAccepted'
  BY <1>4 DEF StillAccepted
<1>. QED BY <1>1, <1>2, <1>5 DEF Serial

\* Every step that leaves no overlap keeps the serial invariant.
LEMMA SerialStep ==
  ASSUME TypeOK, TypeOK', Finds, Closed, Closed', Serial, ~overlapped', [Next]_vars
  PROVE  Serial'
<1>1. CASE UNCHANGED vars
  <2>1. UNCHANGED <<rows, edges, tree, graph, cur, split>> /\ open' = open
    BY <1>1 DEF vars, request
  <2>2. OneOpen'
    BY <2>1 DEF Serial, OneOpen
  <2>. QED BY <2>1, <2>2, SerialStays
<1>2. ASSUME NEW q \in Requests, Open(q) PROVE Serial'
  <2>1. open = {} /\ open' = {q} /\ UNCHANGED <<rows, edges, tree, graph, cur, split>>
    BY <1>2 DEF Open
  <2>2. OneOpen'
    BY <2>1 DEF OneOpen
  <2>. QED BY <2>1, <2>2, SerialStays
<1>3. ASSUME NEW q \in Requests, Close(q) PROVE Serial'
  <2>1. /\ tree' = [tree EXCEPT ![q] = {}] /\ graph' = [graph EXCEPT ![q] = {}]
        /\ open' = open \ {q} /\ q \in open
        /\ UNCHANGED <<rows, edges, cur, split>>
    BY <1>3 DEF Close
  <2>2. OneOpen /\ Memo /\ SoundRows(rows, split) /\ Grounded(LiveEdges, Nodes)
    BY DEF Serial
  <2>3. Live' = Live /\ LiveEdges' = LiveEdges
    BY <2>1 DEF Live, LiveEdges
  <2>4. OneOpen' /\ Memo'
    BY <2>1, <2>2, <2>3 DEF OneOpen, Memo, TypeOK
  <2>5. \A p \in Requests : cur'[p] = {}
    <3>1. TAKE p \in Requests
    <3>2. p \notin open'
      BY <2>1, <2>2 DEF OneOpen
    <3>. QED BY <3>2 DEF Closed
  <2>6. StillAccepted'
    BY <2>5 DEF StillAccepted
  <2>. QED BY <2>1, <2>2, <2>3, <2>4, <2>6 DEF Serial
<1>4. ASSUME NEW q \in Requests, Read(q) PROVE Serial'
  BY <1>4, ReadSerial
<1>5. ASSUME NEW q \in Requests, Commit(q) PROVE Serial'
  BY <1>5, CommitSerial
<1>. QED BY <1>1, <1>2, <1>3, <1>4, <1>5 DEF Next

\* The first tables are sound, and nothing is under way.
LEMMA SerialInit == Init => Finds /\ Closed /\ Serial
<1>. SUFFICES ASSUME Init PROVE Finds /\ Closed /\ Serial
  OBVIOUS
<1>1. /\ rows = InitNodes /\ DOMAIN edges = {} /\ open = {} /\ split = FALSE
      /\ \A q \in Requests : tree[q] = {} /\ graph[q] = {} /\ cur[q] = {}
  BY DEF Init
<1>2. LiveEdges = {}
  BY <1>1 DEF LiveEdges
<1>3. Grounded(LiveEdges, Nodes)
  BY <1>2 DEF Grounded
<1>4. IsIndex(rows)
  BY TypeInit DEF TypeOK
<1>5. SoundRows(rows, split)
  BY <1>1, <1>4, InitialTree, LiveIndex, JustificationIff DEF SoundRows
<1>6. OneOpen /\ Memo /\ StillAccepted
  BY <1>1 DEF OneOpen, Memo, StillAccepted
<1>. QED BY <1>1, <1>3, <1>5, <1>6 DEF Serial, Finds, Closed

\* A request once overlapped stays so in the run's history.
LEMMA OverlapStays ==
  ASSUME [Next]_vars, overlapped
  PROVE  overlapped'
BY DEF Next, Open, Read, Commit, Close, vars

\* The inductive invariant holds in every run.
THEOREM Inductive == Spec => []Inv
<1>1. Init => Inv
  BY TypeInit, SerialInit DEF Inv
<1>2. ASSUME Inv, [Next]_vars PROVE Inv'
  <2>1. TypeOK' /\ Finds' /\ Closed'
    BY <1>2, TypeStep, FindsStep, ClosedStep DEF Inv
  <2>2. ASSUME ~overlapped' PROVE Serial'
    <3>1. Serial
      BY <1>2, <2>2, OverlapStays DEF Inv
    <3>. QED BY <1>2, <2>1, <2>2, <3>1, SerialStep DEF Inv
  <2>. QED BY <2>1, <2>2 DEF Inv
<1>. QED BY <1>1, <1>2, PTL DEF Spec

-----------------------------------------------------------------------------
(* The theorems.                                                              *)

\* Every variable of the verbs keeps its type.
THEOREM TypeCorrect == Spec => []TypeOK
<1>1. Inv => TypeOK
  BY DEF Inv
<1>. QED BY <1>1, Inductive, PTL

\* While the requests of a user do not overlap, every live node hangs where its
\* type may, under a live node, and there are no more visions than allowed.
THEOREM HierarchyKept == Spec => []SerialHierarchy
<1>1. Inv => SerialHierarchy
  BY DEF Inv, Serial, SoundRows, SerialHierarchy, Live
<1>. QED BY <1>1, Inductive, PTL

\* While they do not overlap and no update is split by last-writer-wins, every
\* live task has exactly one justification.
THEOREM JustificationKept == Spec => []SerialJustified
<1>1. ASSUME Inv, ~overlapped, ~split PROVE JustificationHolds(Live)
  <2>1. IsIndex(rows) /\ SoundRows(rows, split)
    BY <1>1 DEF Inv, TypeOK, Serial
  <2>2. HierarchyHolds(Live) /\ \A n \in DOMAIN Live : JustifiedHere(Live[n])
    BY <1>1, <2>1 DEF SoundRows, Live
  <2>3. IsIndex(Live)
    BY <2>1, LiveIndex DEF Live
  <2>. QED BY <2>2, <2>3, JustificationIff
<1>2. Inv => SerialJustified
  BY <1>1 DEF SerialJustified
<1>. QED BY <1>2, Inductive, PTL

\* While they do not overlap, Kahn's order takes in every node: the live
\* dependencies form no cycle.
THEOREM AcyclicKept == Spec => []SerialAcyclic
<1>1. ASSUME Inv, ~overlapped PROVE ~HasCycle(LiveEdges, Nodes)
  <2>1. Grounded(LiveEdges, Nodes)
    BY <1>1 DEF Inv, Serial
  <2>2. Nodes \in SUBSET Nat /\ IsFiniteSet(Nodes)
    BY StructureAssumption
  <2>. QED BY <2>1, <2>2, KahnCompletes
<1>2. Inv => SerialAcyclic
  BY <1>1 DEF SerialAcyclic
<1>. QED BY <1>2, Inductive, PTL

\* While they do not overlap, no walk up the parents of the rows, deleted ones
\* among them, comes back to where it began.
THEOREM NoRingKept == Spec => []SerialNoParentCycle
<1>1. ASSUME Inv, ~overlapped PROVE NoParentCycle
  <2>1. IsIndex(rows) /\ ParentsEnd(rows)
    BY <1>1 DEF Inv, TypeOK, Serial, SoundRows
  <2>. QED BY <2>1, IndexFacts, NoRing DEF NoParentCycle
<1>2. Inv => SerialNoParentCycle
  BY <1>1 DEF SerialNoParentCycle
<1>. QED BY <1>2, Inductive, PTL
=============================================================================
