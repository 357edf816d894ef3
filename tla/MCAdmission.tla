---------------------------- MODULE MCAdmission ----------------------------
EXTENDS Admission, TLC

\* Two requests of a window, so that two adjacent windows let three in within the length of one.
Limits == [o \in Operations |-> 2]

Symmetry == Permutations(Calls) \union Permutations(Peers) \union Permutations(Principals)
=============================================================================
