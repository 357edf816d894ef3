------------------------ MODULE MCNotificationOutbox ------------------------
(* NotificationOutbox on small instances for TLC. *)
EXTENDS NotificationOutbox, TLC

\* Workers, tokens, messages and deliveries are interchangeable.
Symmetry ==
  Permutations(Workers) \union Permutations(Tokens)
    \union Permutations(Ids) \union Permutations(Deliveries)
=============================================================================
