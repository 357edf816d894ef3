-------------------------- MODULE DeliveryContract --------------------------
(***************************************************************************)
(* What the notification outbox promises about one secret delivery,        *)
(* without leases, workers, clocks or retries: a message is requested at   *)
(* most once per delivery, it leaves the live state only to be confirmed   *)
(* or given up, it is confirmed only after the provider accepted its       *)
(* delivery (at-least-once), and a settled message never changes again.    *)
(***************************************************************************)
CONSTANTS Ids,         \* outbox message identifiers
          Deliveries,  \* delivery identifiers, one dedupe key each
          NoDelivery   \* the key of a message that was never requested

VARIABLES stage,       \* stage[i]: where message i is in its life
          key,         \* key[i]: the delivery message i carries
          accepted     \* deliveries the provider has accepted at least once

vars == <<stage, key, accepted>>

Stages == {"none", "live", "delivered", "dead"}

Init ==
  /\ stage = [i \in Ids |-> "none"]
  /\ key = [i \in Ids |-> NoDelivery]
  /\ accepted = {}

Request(i, d) ==
  /\ stage[i] = "none"
  /\ \A j \in Ids : key[j] # d
  /\ stage' = [stage EXCEPT ![i] = "live"]
  /\ key' = [key EXCEPT ![i] = d]
  /\ UNCHANGED accepted

\* A worker that lost its lease may still be sending: acceptance can come
\* after the message was settled by another worker, never before it exists.
Accept(i) ==
  /\ stage[i] # "none"
  /\ accepted' = accepted \union {key[i]}
  /\ UNCHANGED <<stage, key>>

Confirm(i) ==
  /\ stage[i] = "live"
  /\ key[i] \in accepted
  /\ stage' = [stage EXCEPT ![i] = "delivered"]
  /\ UNCHANGED <<key, accepted>>

GiveUp(i) ==
  /\ stage[i] = "live"
  /\ stage' = [stage EXCEPT ![i] = "dead"]
  /\ UNCHANGED <<key, accepted>>

Next ==
  \E i \in Ids :
    \/ \E d \in Deliveries : Request(i, d)
    \/ Accept(i)
    \/ Confirm(i)
    \/ GiveUp(i)

Spec == Init /\ [][Next]_vars
=============================================================================
