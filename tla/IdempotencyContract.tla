------------------------ MODULE IdempotencyContract ------------------------
(***************************************************************************)
(* What the idempotency store promises for one (operation, key) pair,      *)
(* without statements, locks or clocks: every claim is answered by one     *)
(* atomic look at the entry.  An entry may lapse at any time; a claim that *)
(* finds it lapsed starts the next generation, and only the client that    *)
(* was told it started the current generation can complete it.             *)
(***************************************************************************)
EXTENDS Integers

CONSTANTS Clients,   \* callers of claim and complete
          Hashes,    \* request hashes
          NoHash, NoClient

VARIABLES entry,     \* the generation of the key, what it is for and its response
          answer     \* what each client was last told and still acts upon

vars == <<entry, answer>>

NoEntry == [status |-> "none", generation |-> 0, hash |-> NoHash, response |-> NoClient]

Message(kind, generation, hash, response) ==
  [kind |-> kind, generation |-> generation, hash |-> hash, response |-> response]

Nothing == Message("none", 0, NoHash, NoClient)

Init ==
  /\ entry = NoEntry
  /\ answer = [c \in Clients |-> Nothing]

NextEntry(h) ==
  [status |-> "in-progress", generation |-> entry.generation + 1, hash |-> h,
   response |-> NoClient]

Tell(c, message) == answer' = [answer EXCEPT ![c] = message]

Started(c, h) ==
  /\ entry' = NextEntry(h)
  /\ Tell(c, Message("started", entry.generation + 1, h, NoClient))

Conflict(c, h) ==
  /\ entry.status # "none" /\ entry.hash # h
  /\ Tell(c, Message("conflict", 0, h, NoClient))
  /\ UNCHANGED entry

InProgress(c, h) ==
  /\ entry.status = "in-progress" /\ entry.hash = h
  /\ Tell(c, Message("in-progress", 0, h, NoClient))
  /\ UNCHANGED entry

Replay(c, h) ==
  /\ entry.status = "completed" /\ entry.hash = h
  /\ Tell(c, Message("replay", 0, h, entry.response))
  /\ UNCHANGED entry

\* The claim took effect and its answer was lost: a generation without an owner.
StartedUnheard(h) == entry' = NextEntry(h) /\ UNCHANGED answer

\* The response is stored; the client may not hear of it, and forgets its claim.
Complete(c) ==
  /\ entry.status = "in-progress"
  /\ answer[c].kind = "started"
  /\ answer[c].generation = entry.generation /\ answer[c].hash = entry.hash
  /\ entry' = [status |-> "completed", generation |-> entry.generation,
                hash |-> entry.hash, response |-> c]
  /\ Tell(c, Nothing)

\* A client returns, fails or dies.
Forget(c) == Tell(c, Nothing) /\ UNCHANGED entry

Next ==
  \/ \E c \in Clients, h \in Hashes :
       Started(c, h) \/ Conflict(c, h) \/ InProgress(c, h) \/ Replay(c, h)
  \/ \E h \in Hashes : StartedUnheard(h)
  \/ \E c \in Clients : Complete(c) \/ Forget(c)

Spec == Init /\ [][Next]_vars
=============================================================================
