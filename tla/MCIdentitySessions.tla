------------------------- MODULE MCIdentitySessions -------------------------
(* IdentitySessions on small instances for TLC. *)
EXTENDS IdentitySessions, TLC

\* Sessions, challenges and passwords are interchangeable, and so are the calls.
Symmetry ==
  Permutations(Requests) \union Permutations(Sessions)
    \union Permutations(Challenges) \union Permutations(Passwords)
=============================================================================
