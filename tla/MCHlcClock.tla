----------------------------- MODULE MCHlcClock -----------------------------
EXTENDS HlcClock, TLC
\* Two clock closures of one installation.
CONSTANTS k1, k2

\* Closures are interchangeable.
Symm == Permutations(Clocks)
=============================================================================
