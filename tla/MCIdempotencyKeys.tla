------------------------- MODULE MCIdempotencyKeys -------------------------
(* IdempotencyKeys on small instances for TLC. *)
EXTENDS IdempotencyKeys, TLC

\* Clients and request hashes are interchangeable.
Symmetry == Permutations(Clients) \union Permutations(Hashes)
=============================================================================
