--------------------------- MODULE MCAdministration -------------------------
(* Administration on a small instance for TLC. *)
EXTENDS Administration, TLC

AllPermissions == {ManageRoles, Catalog!ManageProducts}

\* A role manages roles or products; an account may hold both.  One permission is unknown.
ThreeGrants == {{ManageRoles}, {Catalog!ManageProducts}, {ManageRoles, "unknown"}}

\* "01.500000" is accepted; the others are negative, no decimal, or have a digit too many.
FourAmounts ==
  {[negative |-> FALSE, whole |-> <<0, 1>>, fraction |-> <<5, 0, 0, 0, 0, 0>>],
   [negative |-> FALSE, whole |-> <<1>>, fraction |-> <<5, 0, 0, 0, 0, 0, 0>>],
   [negative |-> TRUE, whole |-> <<0>>, fraction |-> <<>>],
   [negative |-> FALSE, whole |-> <<>>, fraction |-> <<>>]}

\* Every two model codes differ only in case.
OneKey == [c \in ModelCodes |-> CHOOSE d \in ModelCodes : TRUE]

Symmetry ==
  Permutations(Requests) \union Permutations(Accounts) \union Permutations(Roles)
    \union Permutations(Names) \union Permutations(Products)
=============================================================================
