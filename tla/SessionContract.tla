--------------------------- MODULE SessionContract ---------------------------
(***************************************************************************)
(* What the identity service promises about the sessions of an account,    *)
(* without rows, versions, clocks or transactions: a session is opened     *)
(* once, its secret is exchanged in one atomic step for one never seen     *)
(* before, and only on behalf of a caller who was given the current one,   *)
(* and revocation is final.                                                *)
(***************************************************************************)
CONSTANTS Sessions, Secrets, NoSecret

VARIABLES stage,    \* stage[s]: none, live or revoked
          secret,   \* the secret that currently opens each session
          told      \* the secrets callers were given

vars == <<stage, secret, told>>

Init ==
  /\ stage = [s \in Sessions |-> "none"]
  /\ secret = [s \in Sessions |-> NoSecret]
  /\ told = {}

Given(s, x) == [session |-> s, secret |-> x]

\* The caller is given the secret, unless the answer is lost.
Give(s, x) == told' = told \union {Given(s, x)} \/ UNCHANGED told

Open(s, x) ==
  /\ stage[s] = "none"
  /\ stage' = [stage EXCEPT ![s] = "live"]
  /\ secret' = [secret EXCEPT ![s] = x]
  /\ Give(s, x)

Rotate(s, x) ==
  /\ stage[s] = "live"
  /\ Given(s, secret[s]) \in told
  /\ Given(s, x) \notin told
  /\ secret' = [secret EXCEPT ![s] = x]
  /\ Give(s, x)
  /\ UNCHANGED stage

Revoke(S) ==
  /\ \A s \in S : stage[s] = "live"
  /\ stage' = [s \in Sessions |-> IF s \in S THEN "revoked" ELSE stage[s]]
  /\ UNCHANGED <<secret, told>>

Next ==
  \/ \E s \in Sessions, x \in Secrets : Open(s, x) \/ Rotate(s, x)
  \/ \E S \in SUBSET Sessions : Revoke(S)

Spec == Init /\ [][Next]_vars
=============================================================================
