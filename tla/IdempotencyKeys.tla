-------------------------- MODULE IdempotencyKeys --------------------------
(***************************************************************************)
(* PostgresIdempotencyStore (packages/data-postgres, idempotency.ts) for   *)
(* one (operation, key) pair: the row of foundation_idempotency_keys, its  *)
(* row lock, and the clients that claim and complete the key.              *)
(*                                                                         *)
(* claim is a READ COMMITTED transaction of up to three statements; each   *)
(* statement and the COMMIT is an action, so that other clients and the    *)
(* clock run in between.  What a transaction wrote is its client's draft   *)
(* until it commits.  The clients follow the protocol of the integration   *)
(* tests: claim, do the work when told "started", complete.                *)
(***************************************************************************)
EXTENDS Integers

CONSTANTS Clients,        \* callers of claim and complete
          Hashes,         \* request hashes (SHA-256 of the canonical request)
          NoHash, NoClient,
          Ttls,           \* lifetimes of a claim: expiresAt - now, positive
          PromptClients,  \* TRUE: a live client acts before its claim expires
          MaxTime,        \* bound on the clock
          MaxFaults       \* bound on crashes and failed statements

ASSUME IdempotencyAssumption ==
  /\ Ttls \subseteq Nat \ {0}
  /\ PromptClients \in BOOLEAN
  /\ MaxTime \in Nat /\ MaxFaults \in Nat
  /\ NoHash \notin Hashes /\ NoClient \notin Clients

VARIABLES row,      \* the committed row of the key
          lock,     \* the client whose transaction holds the row (or inserts it)
          client,   \* the locals of each caller
          now,      \* the clock the callers read
          faults,   \* crashes and failed statements so far
          began     \* history: which client was told it started which generation

vars == <<row, lock, client, now, faults, began>>

\* A response is identified with the client whose work produced it.
Row == [status : {"NONE", "IN_PROGRESS", "COMPLETED"}, hash : Hashes \union {NoHash},
        generation : Nat, response : Clients \union {NoClient}, expiresAt : Nat]

NoRow == [status |-> "NONE", hash |-> NoHash, generation |-> 0,
          response |-> NoClient, expiresAt |-> 0]

InTransaction == {"inserting", "selecting", "selected", "committing"}
Answered == {"in-progress", "replay", "conflict", "completed", "failed"}
Phases == {"idle", "started", "completing"} \union InTransaction \union Answered

Client == [phase : Phases, hash : Hashes \union {NoHash}, now : Nat, expiresAt : Nat,
           seen : Row, draft : Row, generation : Nat, response : Clients \union {NoClient}]

IdleClient == [phase |-> "idle", hash |-> NoHash, now |-> 0, expiresAt |-> 0,
               seen |-> NoRow, draft |-> NoRow, generation |-> 0, response |-> NoClient]

Began == [generation : Nat, client : Clients, hash : Hashes]

Init ==
  /\ row = NoRow
  /\ lock = NoClient
  /\ client = [c \in Clients |-> IdleClient]
  /\ now = 0
  /\ faults = 0
  /\ began = {}

-----------------------------------------------------------------------------
(* claim.                                                                  *)

\* The caller reads the clock, chooses expiresAt and the transaction begins.
Call(c, h, ttl) ==
  /\ client[c].phase = "idle"
  /\ client' = [client EXCEPT ![c] =
                  [IdleClient EXCEPT !.phase = "inserting", !.hash = h, !.now = now,
                                     !.expiresAt = now + ttl]]
  /\ UNCHANGED <<row, lock, now, faults, began>>

FreshRow(c, generation) ==
  [status |-> "IN_PROGRESS", hash |-> client[c].hash, generation |-> generation,
   response |-> NoClient, expiresAt |-> client[c].expiresAt]

Write(c, r) == client' = [client EXCEPT ![c].phase = "committing", ![c].draft = r]

\* INSERT ... ON CONFLICT DO NOTHING waits for another insert of the key that has
\* not committed, and passes over a committed row whoever has it locked.
Insert(c) ==
  /\ client[c].phase = "inserting"
  /\ \/ /\ row.status = "NONE" /\ lock = NoClient
        /\ lock' = c
        /\ Write(c, FreshRow(c, 1))
     \/ /\ row.status # "NONE"
        /\ client' = [client EXCEPT ![c].phase = "selecting"]
        /\ UNCHANGED lock
  /\ UNCHANGED <<row, now, faults, began>>

\* SELECT ... FOR UPDATE.
Select(c) ==
  /\ client[c].phase = "selecting"
  /\ lock = NoClient
  /\ lock' = c
  /\ client' = [client EXCEPT ![c].phase = "selected", ![c].seen = row]
  /\ UNCHANGED <<row, now, faults, began>>

ExpiredIfCompleted(r, at) ==   \* mutant: an abandoned claim is never reclaimed
  r.status = "COMPLETED" /\ r.expiresAt <= at

Expired(r, at) == r.expiresAt <= at

ReclaimSameGeneration(c) ==   \* mutant: the generation is not advanced
  /\ client[c].phase = "selected"
  /\ Expired(client[c].seen, client[c].now)
  /\ lock \in {NoClient, c}
  /\ IF Expired(row, client[c].now)
     THEN lock' = c /\ Write(c, FreshRow(c, row.generation))
     ELSE UNCHANGED lock /\ Write(c, NoRow)
  /\ UNCHANGED <<row, now, faults, began>>

\* The UPDATE of an expired row checks the expiry again on the row it finds.
Reclaim(c) ==
  /\ client[c].phase = "selected"
  /\ Expired(client[c].seen, client[c].now)
  /\ lock \in {NoClient, c}
  /\ IF Expired(row, client[c].now)
     THEN lock' = c /\ Write(c, FreshRow(c, row.generation + 1))
     ELSE UNCHANGED lock /\ Write(c, NoRow)
  /\ UNCHANGED <<row, now, faults, began>>

\* The row is live: the transaction ends with nothing written.
Keep(c) ==
  /\ client[c].phase = "selected"
  /\ ~Expired(client[c].seen, client[c].now)
  /\ Write(c, NoRow)
  /\ UNCHANGED <<row, lock, now, faults, began>>

ReplyIgnoringHash(r, h) ==   \* mutant: replays another request's response
  IF r.status = "COMPLETED" THEN "replay"
  ELSE IF r.hash # h THEN "conflict" ELSE "in-progress"

Reply(r, h) ==
  IF r.hash # h THEN "conflict"
  ELSE IF r.status = "COMPLETED" THEN "replay" ELSE "in-progress"

Answer(q) ==
  IF q.draft.status # "NONE"
  THEN [q EXCEPT !.phase = "started", !.generation = q.draft.generation]
  ELSE [q EXCEPT !.phase = Reply(q.seen, q.hash),
                 !.response = IF Reply(q.seen, q.hash) = "replay"
                              THEN q.seen.response ELSE NoClient]

\* What a caller still knows once its call is over.
Settle(q) == [q EXCEPT !.seen = NoRow, !.draft = NoRow]

Failed == [IdleClient EXCEPT !.phase = "failed"]

Unlock(c) == lock' = IF lock = c THEN NoClient ELSE lock

Fault(outcome) ==
  /\ outcome # "ok" => faults < MaxFaults
  /\ faults' = IF outcome = "ok" THEN faults ELSE faults + 1

CommitHeard(c, outcome) ==   \* mutant: an answer is believed though COMMIT failed
  /\ client[c].phase = "committing"
  /\ row' = IF outcome # "not-applied" /\ client[c].draft.status # "NONE"
            THEN client[c].draft ELSE row
  /\ Unlock(c)
  /\ client' = [client EXCEPT ![c] = Settle(Answer(@))]
  /\ began' = IF client[c].draft.status # "NONE"
              THEN began \union {[generation |-> client[c].draft.generation,
                                  client |-> c, hash |-> client[c].hash]}
              ELSE began
  /\ Fault(outcome)
  /\ UNCHANGED now

\* COMMIT: it may fail, and its reply may be lost after it took effect.
Commit(c, outcome) ==
  /\ client[c].phase = "committing"
  /\ row' = IF outcome # "not-applied" /\ client[c].draft.status # "NONE"
            THEN client[c].draft ELSE row
  /\ Unlock(c)
  /\ client' = [client EXCEPT ![c] = IF outcome = "ok" THEN Settle(Answer(@)) ELSE Failed]
  /\ began' = IF outcome = "ok" /\ client[c].draft.status # "NONE"
              THEN began \union {[generation |-> client[c].draft.generation,
                                  client |-> c, hash |-> client[c].hash]}
              ELSE began
  /\ Fault(outcome)
  /\ UNCHANGED now

-----------------------------------------------------------------------------
(* complete.                                                               *)

\* The work is done.  The now handed to complete is the caller's: between the one
\* of its claim, which the tests reuse, and the clock.
Finish(c, at) ==
  /\ client[c].phase = "started"
  /\ client[c].now <= at /\ at <= now
  /\ client' = [client EXCEPT ![c].phase = "completing", ![c].now = at]
  /\ UNCHANGED <<row, lock, now, faults, began>>

OwnsIgnoringGeneration(c) ==   \* mutant: no generation fence
  /\ row.hash = client[c].hash
  /\ row.status = "IN_PROGRESS" /\ row.expiresAt > client[c].now

\* The WHERE clause of the completion.
Owns(c) ==
  /\ row.hash = client[c].hash /\ row.generation = client[c].generation
  /\ row.status = "IN_PROGRESS" /\ row.expiresAt > client[c].now

\* One UPDATE: it waits for the row lock, then looks at the row it finds.
Complete(c, outcome) ==
  /\ client[c].phase = "completing"
  /\ lock = NoClient
  /\ row' = IF outcome # "not-applied" /\ Owns(c)
            THEN [row EXCEPT !.status = "COMPLETED", !.response = c] ELSE row
  /\ client' = [client EXCEPT ![c] =
       IF outcome = "ok" /\ Owns(c) THEN [IdleClient EXCEPT !.phase = "completed"]
       ELSE Failed]
  /\ Fault(outcome)
  /\ UNCHANGED <<lock, now, began>>

-----------------------------------------------------------------------------
(* The callers and the clock.                                              *)

\* The caller has its answer; a later request, or a retry, starts afresh.
Return(c) ==
  /\ client[c].phase \in Answered
  /\ client' = [client EXCEPT ![c] = IdleClient]
  /\ UNCHANGED <<row, lock, now, faults, began>>

\* The caller dies, its work fails, or its connection breaks: the transaction is
\* rolled back, a claim that committed stays behind.
Crash(c) ==
  /\ client[c].phase \notin Answered \union {"idle"}
  /\ faults < MaxFaults
  /\ Unlock(c)
  /\ client' = [client EXCEPT ![c] = IdleClient]
  /\ faults' = faults + 1
  /\ UNCHANGED <<row, now, began>>

\* With PromptClients only a claim that lost its owner ever expires, and the clock
\* rests when nothing waits for it.
MayTick ==
  PromptClients =>
    /\ row.status = "IN_PROGRESS" /\ now < row.expiresAt
    /\ \A c \in Clients :
         client[c].phase \in InTransaction \union {"started", "completing"} =>
           now + 1 < client[c].expiresAt

Tick ==
  /\ now < MaxTime
  /\ MayTick
  /\ now' = now + 1
  /\ UNCHANGED <<row, lock, client, faults, began>>

Outcomes == {"ok", "lost-reply", "not-applied"}

Statement(c) ==
  \/ Insert(c) \/ Select(c) \/ Reclaim(c) \/ Keep(c)
  \/ \E o \in Outcomes : Commit(c, o) \/ Complete(c, o)

Caller(c) ==
  \/ \E h \in Hashes, ttl \in Ttls : Call(c, h, ttl)
  \/ \E at \in 0..now : Finish(c, at)
  \/ Return(c)

Next ==
  \/ \E c \in Clients : Statement(c) \/ Caller(c) \/ Crash(c)
  \/ Tick

Spec == Init /\ [][Next]_vars

\* Every statement sent to the database is executed, however contended the row (lock
\* waiters are queued); a caller that is told "started" finishes, a caller that has its
\* answer calls again, and time passes.
Fairness ==
  /\ SF_vars(Tick)
  /\ \A c \in Clients : SF_vars(Statement(c)) /\ WF_vars(Caller(c))

FairSpec == Spec /\ Fairness

-----------------------------------------------------------------------------
(* Properties.                                                             *)

\* Every variable has its type.
TypeOK ==
  /\ row \in Row
  /\ lock \in Clients \union {NoClient}
  /\ client \in [Clients -> Client]
  /\ now \in Nat
  /\ faults \in Nat
  /\ began \subseteq Began

Owner(c) == client[c].phase \in {"started", "completing"}

\* A generation is started by at most one client, however claims of the key race on
\* its first insert or on its reclaim (idempotency.ts claim).
OneOwnerPerGeneration ==
  \A a, b \in began : a.generation = b.generation => a = b

\* At no moment do two clients both work under a claim that has not expired
\* (idempotency.ts claim: reclaim only after expiry, one insert per key).
OneLiveOwner ==
  \A c, d \in Clients :
    Owner(c) /\ Owner(d) /\ client[c].expiresAt > now /\ client[d].expiresAt > now => c = d

\* Fencing: the stored response was produced by the client that was told it started
\* the row's own generation, for the row's own request; a stale worker cannot
\* complete a claim that was reclaimed (idempotency.ts complete).
CompletedByOwner ==
  row.status = "COMPLETED" =>
    [generation |-> row.generation, client |-> row.response, hash |-> row.hash] \in began

\* A replayed response answers the very request that is replayed
\* (idempotency.ts claim, the last three returns).
ReplayIsAuthentic ==
  \A c \in Clients : client[c].phase = "replay" =>
    \E b \in began : b.client = client[c].response /\ b.hash = client[c].hash

\* What claim read FOR UPDATE is still the row when it acts on it, so the fall-through
\* after an UPDATE that finds the row renewed is never taken (idempotency.ts claim).
SnapshotHolds ==
  \A c \in Clients : client[c].phase = "selected" => client[c].seen = row

\* A key moves to its next generation one at a time and only after the claim it holds
\* expired: neither work in progress nor a stored response is thrown away early.
NoEarlyReclaim ==
  [][row.status # "NONE" /\ row'.generation # row.generation =>
       row.expiresAt <= now /\ row'.generation = row.generation + 1]_vars

\* A claim never stays in progress for good: its owner completes it, or it expires and
\* a later call takes it over (idempotency.ts claim, the reclaim).
InProgressIsResolved == row.status = "IN_PROGRESS" ~> row.status = "COMPLETED"

-----------------------------------------------------------------------------
(* The inductive invariant.                                                *)

RowOK ==
  /\ row.status = "NONE" => row = NoRow
  /\ row.status # "NONE" => row.generation > 0 /\ row.hash \in Hashes
  /\ row.status = "IN_PROGRESS" => row.response = NoClient

\* A client between its INSERT and its COMMIT.
TransactionOK(c) ==
  LET q == client[c] IN
  /\ q.phase \in {"selected", "committing"} <=> lock = c
  /\ q.phase \in InTransaction => q.hash \in Hashes /\ q.now < q.expiresAt
  /\ q.phase \in {"selecting", "selected"} => row.status # "NONE"
  /\ q.phase = "committing" =>
       IF q.draft.status = "NONE"
       THEN q.seen = row /\ row.status # "NONE"
       ELSE /\ q.draft = FreshRow(c, row.generation + 1)
            /\ row.status = "NONE" \/ row.expiresAt <= q.now

\* A client that was told "started": its claim is the row's, or has expired.
OwnerOK(c) ==
  LET q == client[c] IN
  /\ q.now <= now
  /\ Owner(c) =>
       /\ [generation |-> q.generation, client |-> c, hash |-> q.hash] \in began
       /\ q.hash \in Hashes
       /\ IF q.generation = row.generation THEN q.expiresAt = row.expiresAt
                                           ELSE q.expiresAt <= now

BeganOK == \A b \in began : b.generation \in 1..row.generation

\* Everything the safety properties rest on (the row lock of a claim, the expiry
\* check, the generation).
IndInv ==
  /\ TypeOK
  /\ RowOK
  /\ \A c \in Clients : TransactionOK(c) /\ OwnerOK(c)
  /\ BeganOK
  /\ OneOwnerPerGeneration
  /\ SnapshotHolds
  /\ CompletedByOwner
  /\ ReplayIsAuthentic

-----------------------------------------------------------------------------
(* The store implements its contract.                                      *)

StatusOf(r) ==
  CASE r.status = "NONE" -> "none"
    [] r.status = "IN_PROGRESS" -> "in-progress"
    [] r.status = "COMPLETED" -> "completed"

EntryOf(r) == [status |-> StatusOf(r), generation |-> r.generation, hash |-> r.hash,
               response |-> r.response]

Message(kind, generation, hash, response) ==
  [kind |-> kind, generation |-> generation, hash |-> hash, response |-> response]

\* What a client acts upon.
Told(q) ==
  IF q.phase \in {"started", "completing"}
  THEN Message("started", q.generation, q.hash, NoClient)
  ELSE IF q.phase \in {"in-progress", "replay", "conflict"}
  THEN Message(q.phase, 0, q.hash, q.response)
  ELSE Message("none", 0, NoHash, NoClient)

Contract == INSTANCE IdempotencyContract WITH
  entry <- EntryOf(row),
  answer <- [c \in Clients |-> Told(client[c])]

\* The three statements of a claim behave as one atomic look at the key, and only the
\* owner of the current generation completes it.
ImplementsContract == Contract!Spec
=============================================================================
