----------------------------- MODULE MCContract -----------------------------
EXTENDS Contract, TLC

CONSTANTS c1, d1, d2, s1, s2, o1

OneFleet == [d \in Drivers |-> c1]

Interchangeable == Permutations(Drivers) \cup Permutations(Slots)

\* What follows a late answer, or two drivers on one order, is not explored.
Regular == late = {} /\ shared = {}
=============================================================================
