------------------------------ MODULE MCMpmcRing ------------------------------
EXTENDS MpmcRing, TLC

MCStopScopes == {{"push"}, {"push", "pop"}}

\* Threads of a kind are interchangeable.
Symmetry == Permutations(Producers) \cup Permutations(Consumers)
=============================================================================
