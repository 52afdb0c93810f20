----------------------------- MODULE MCSpecSync -----------------------------
EXTENDS SpecSync, TLC

CONSTANTS any, all, u1, u2

\* An array that signals with any of two fences and one that needs both.
MCSize == [a \in Arrays |-> 2]

Symmetry == Permutations(Procs) \cup Permutations(Users)
=============================================================================
