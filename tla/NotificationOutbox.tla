------------------------- MODULE NotificationOutbox -------------------------
(***************************************************************************)
(* The transactional notification outbox: the table                        *)
(* foundation_outbox_messages with the statements of                       *)
(* PostgresNotificationOutboxStore (packages/notifications,                *)
(* postgres-store.ts) and any number of processes running                  *)
(* NotificationOutboxProcessor.processOnce (outbox.ts).                    *)
(*                                                                         *)
(* Every database statement is one action; between two statements, and     *)
(* around the call of the provider, other workers run, the clock advances  *)
(* and processes die.  A worker keeps what the code keeps in its locals:   *)
(* the lease token, the last Date it read, the jobs left in its batch, the *)
(* job at hand and the error code it is about to persist.                  *)
(***************************************************************************)
EXTENDS Integers, FiniteSets

CONSTANTS Ids,            \* outbox message identifiers (uuid)
          Deliveries,     \* delivery identifiers, the idempotency key of an event
          Workers,        \* processes that call processOnce
          Tokens,         \* lease tokens (uuid)
          NoDelivery, NoToken, NoId,
          Ttls,           \* lifetimes of a secret: reset and verification TTL
          BatchSize, LeaseDuration, MaxAttempts, BaseDelay, MaxDelay,
          PromptWorkers,  \* TRUE: a running worker acts before its leases end
          MaxTime,        \* bound on the clock
          MaxFaults       \* bound on crashes and failed statements

ASSUME OutboxAssumption ==
  /\ Ttls \subseteq Nat \ {0}
  /\ BatchSize \in Nat \ {0}
  /\ LeaseDuration \in Nat \ {0}
  /\ MaxAttempts \in Nat \ {0}
  /\ BaseDelay \in Nat \ {0}
  /\ MaxDelay \in Nat /\ MaxDelay >= BaseDelay
  /\ PromptWorkers \in BOOLEAN
  /\ MaxTime \in Nat /\ MaxFaults \in Nat
  /\ \A n \in 0..16 : 2^n \in Nat
  /\ NoDelivery \notin Deliveries /\ NoToken \notin Tokens /\ NoId \notin Ids

VARIABLES row,       \* the outbox table
          worker,    \* the locals of each processOnce
          accepted,  \* deliveries accepted by the external provider
          sends,     \* history: calls of provider.send per message
          now,       \* the clock every process reads
          faults     \* crashes and failed statements so far

vars == <<row, worker, accepted, sends, now, faults>>

Statuses == {"ABSENT", "PENDING", "PROCESSING", "DELIVERED", "DEAD"}
Terminal == {"DELIVERED", "DEAD"}
ErrorCodes == {"none", "delivery-expired", "recipient-unavailable", "provider-error"}
Phases == {"idle", "claiming", "locking", "looping", "resolving", "sending",
           "confirming", "expiring", "failing"}

Row == [status : Statuses, dedupeKey : Deliveries \union {NoDelivery},
        attemptCount : Nat, availableAt : Nat, expiresAt : Nat,
        leaseToken : Tokens \union {NoToken}, leaseExpiresAt : Nat,
        errorCode : ErrorCodes, deliveredAt : Nat]

Worker == [phase : Phases, token : Tokens \union {NoToken},
           claimedAt : Nat, now : Nat,
           jobs : SUBSET Ids, job : Ids \union {NoId}, code : ErrorCodes]

NoRow == [status |-> "ABSENT", dedupeKey |-> NoDelivery, attemptCount |-> 0,
          availableAt |-> 0, expiresAt |-> 0, leaseToken |-> NoToken,
          leaseExpiresAt |-> 0, errorCode |-> "none", deliveredAt |-> 0]

IdleWorker == [phase |-> "idle", token |-> NoToken, claimedAt |-> 0, now |-> 0,
               jobs |-> {}, job |-> NoId, code |-> "none"]

Init ==
  /\ row = [i \in Ids |-> NoRow]
  /\ worker = [w \in Workers |-> IdleWorker]
  /\ accepted = {}
  /\ sends = [i \in Ids |-> 0]
  /\ now = 0
  /\ faults = 0

-----------------------------------------------------------------------------
(* The producer: SecretDeliveryOutboxSink.deliver inside the transaction   *)
(* of the identity service, committed.                                     *)

\* ON CONFLICT (dedupe_key) DO NOTHING: a second enqueue of a delivery changes
\* nothing, so only the first one is a step.
NotEnqueued(d) == \A j \in Ids : row[j].dedupeKey # d

Enqueue(i, d, ttl) ==
  /\ row[i].status = "ABSENT"
  /\ NotEnqueued(d)
  /\ row' = [row EXCEPT ![i] =
               [NoRow EXCEPT !.status = "PENDING", !.dedupeKey = d,
                             !.availableAt = now, !.expiresAt = now + ttl]]
  /\ UNCHANGED <<worker, accepted, sends, now, faults>>

-----------------------------------------------------------------------------
(* Claiming a batch.                                                       *)

\* A random uuid: a token that neither a row nor a worker refers to.
Fresh(t) ==
  /\ \A i \in Ids : row[i].leaseToken # t
  /\ \A w \in Workers : worker[w].token # t

\* processOnce reads the clock and draws a token before it reaches the database.
Start(w, t) ==
  /\ worker[w].phase = "idle"
  /\ Fresh(t)
  /\ worker' = [worker EXCEPT ![w] =
                  [IdleWorker EXCEPT !.phase = "claiming", !.token = t,
                                      !.claimedAt = now, !.now = now]]
  /\ UNCHANGED <<row, accepted, sends, now, faults>>

ClaimableLeased(i, at) ==      \* mutant: steals leases that still run
  row[i].availableAt <= at /\ row[i].status \in {"PENDING", "PROCESSING"}

ClaimableSettled(i, at) ==     \* mutant: the status filter lets DEAD messages in
  /\ row[i].availableAt <= at
  /\ row[i].status \in {"PENDING", "PROCESSING", "DEAD"}
  /\ row[i].leaseExpiresAt <= at

ClaimablePending(i, at) ==     \* mutant: expired leases are never reclaimed
  row[i].availableAt <= at /\ row[i].status = "PENDING"

Claimable(i, at) ==
  /\ row[i].availableAt <= at
  /\ \/ row[i].status = "PENDING"
     \/ row[i].status = "PROCESSING" /\ row[i].leaseExpiresAt <= at

\* claimBatch is one statement: its candidates stay row-locked from the scan to
\* the end of the UPDATE.
Locked(i) == \E v \in Workers : worker[v].phase = "locking" /\ i \in worker[v].jobs

\* A fenced UPDATE in flight also holds the lock of its row for a moment.
BeingMarked(i, w) ==
  \E v \in Workers \ {w} :
    worker[v].phase \in {"confirming", "expiring", "failing"} /\ worker[v].job = i

\* ORDER BY available_at LIMIT n over the candidates that are not skipped.
OldestBatch(B, C) ==
  /\ IsFiniteSet(B) /\ Cardinality(B) <= BatchSize
  /\ C # B => Cardinality(B) = BatchSize
  /\ \A i \in B, j \in C \ B : row[i].availableAt <= row[j].availableAt

\* SKIP LOCKED: rows locked by another claim are passed over, and so may be rows
\* another worker is marking.
SelectBatch(w) ==
  /\ worker[w].phase = "claiming"
  /\ LET free == {i \in Ids : Claimable(i, worker[w].claimedAt) /\ ~Locked(i)}
     IN \E skipped \in SUBSET {i \in free : BeingMarked(i, w)} :
          \E batch \in SUBSET (free \ skipped) :
            /\ OldestBatch(batch, free \ skipped)
            /\ worker' = [worker EXCEPT ![w].phase = "locking", ![w].jobs = batch]
  /\ UNCHANGED <<row, accepted, sends, now, faults>>

Lease(r, w) ==
  [r EXCEPT !.status = "PROCESSING", !.leaseToken = worker[w].token,
            !.leaseExpiresAt = worker[w].claimedAt + LeaseDuration]

ClaimBatch(w) ==
  /\ worker[w].phase = "locking"
  /\ row' = [i \in Ids |-> IF i \in worker[w].jobs THEN Lease(row[i], w) ELSE row[i]]
  /\ worker' = [worker EXCEPT ![w].phase = "looping"]
  /\ UNCHANGED <<accepted, sends, now, faults>>

\* The loop is over: processOnce returns its counts.
Return(w) ==
  /\ worker[w].phase = "looping"
  /\ worker[w].jobs = {}
  /\ worker' = [worker EXCEPT ![w] = IdleWorker]
  /\ UNCHANGED <<row, accepted, sends, now, faults>>

-----------------------------------------------------------------------------
(* One job of the batch.                                                   *)

\* The catch block: it reads the clock again and will call markFailed.
Catch(w) == [worker[w] EXCEPT !.phase = "failing", !.now = now,
                              !.code = "provider-error"]

Decrypts == BOOLEAN   \* a payload sealed under another key, or altered, throws

BeginJob(w, i, decrypts) ==
  /\ worker[w].phase = "looping"
  /\ i \in worker[w].jobs
  /\ LET taken == [worker[w] EXCEPT !.jobs = @ \ {i}, !.job = i, !.now = now]
     IN worker' = [worker EXCEPT ![w] =
          IF ~decrypts
          THEN [taken EXCEPT !.phase = "failing", !.code = "provider-error"]
          ELSE IF row[i].expiresAt <= now
               THEN [taken EXCEPT !.phase = "expiring", !.code = "delivery-expired"]
               ELSE [taken EXCEPT !.phase = "resolving", !.code = "none"]]
  /\ UNCHANGED <<row, accepted, sends, now, faults>>

\* recipients.resolve: an address, null (account gone or not ACTIVE), or an error.
Resolve(w, outcome) ==
  /\ worker[w].phase = "resolving"
  /\ worker' = [worker EXCEPT ![w] =
       CASE outcome = "found"  -> [@ EXCEPT !.phase = "sending"]
         [] outcome = "null"   -> [@ EXCEPT !.phase = "failing",
                                            !.code = "recipient-unavailable"]
         [] outcome = "throws" -> Catch(w)]
  /\ UNCHANGED <<row, accepted, sends, now, faults>>

SendSwallowsRefusal(w, outcome) ==   \* mutant: a provider error is swallowed
  /\ worker[w].phase = "sending"
  /\ accepted' = IF outcome = "refused" THEN accepted
                 ELSE accepted \union {row[worker[w].job].dedupeKey}
  /\ sends' = [sends EXCEPT ![worker[w].job] = @ + 1]
  /\ worker' = [worker EXCEPT ![w].phase = "confirming"]
  /\ UNCHANGED <<row, now, faults>>

\* provider.send: it may accept and answer, refuse, or accept and fail to answer.
Send(w, outcome) ==
  /\ worker[w].phase = "sending"
  /\ accepted' = IF outcome = "refused" THEN accepted
                 ELSE accepted \union {row[worker[w].job].dedupeKey}
  /\ sends' = [sends EXCEPT ![worker[w].job] = @ + 1]
  /\ worker' = [worker EXCEPT ![w] =
       IF outcome = "accepted" THEN [@ EXCEPT !.phase = "confirming"] ELSE Catch(w)]
  /\ UNCHANGED <<row, now, faults>>

-----------------------------------------------------------------------------
(* Settling a job.  Each mark is one fenced UPDATE: it changes the row only *)
(* while it is PROCESSING under the worker's own token.  The statement may  *)
(* also fail, either before it took effect or after (the reply is lost);    *)
(* the worker then sees an exception in both cases.                         *)

Outcomes == {"ok", "lost-reply", "not-applied"}

HoldsAnyLease(w, i) == row[i].status = "PROCESSING"   \* mutant: no token fence

Holds(w, i) == row[i].status = "PROCESSING" /\ row[i].leaseToken = worker[w].token

Unleased(r) == [r EXCEPT !.leaseToken = NoToken, !.leaseExpiresAt = 0]

AsDelivered(r, at) ==
  [Unleased(r) EXCEPT !.status = "DELIVERED", !.deliveredAt = at, !.errorCode = "none"]

AsDead(r, code) ==
  [Unleased(r) EXCEPT !.status = "DEAD", !.attemptCount = @ + 1, !.errorCode = code]

Doublings(attempts) == IF attempts < 16 THEN attempts ELSE 16

RetryDelay(attempts) ==
  LET delay == BaseDelay * 2^Doublings(attempts)
  IN  IF delay < MaxDelay THEN delay ELSE MaxDelay

AsFailedOnceMore(r, code, at) ==   \* mutant: one attempt too many
  IF r.attemptCount + 1 > MaxAttempts
  THEN AsDead(r, code)
  ELSE [Unleased(r) EXCEPT !.status = "PENDING", !.attemptCount = @ + 1,
          !.availableAt = at + RetryDelay(r.attemptCount), !.errorCode = code]

AsFailed(r, code, at) ==
  IF r.attemptCount + 1 >= MaxAttempts
  THEN AsDead(r, code)
  ELSE [Unleased(r) EXCEPT !.status = "PENDING", !.attemptCount = @ + 1,
          !.availableAt = at + RetryDelay(r.attemptCount), !.errorCode = code]

Update(w, outcome, settled) ==
  /\ ~Locked(worker[w].job)
  /\ row' = IF outcome # "not-applied" /\ Holds(w, worker[w].job)
            THEN [row EXCEPT ![worker[w].job] = settled] ELSE row
  /\ outcome # "ok" => faults < MaxFaults
  /\ faults' = IF outcome = "ok" THEN faults ELSE faults + 1
  /\ UNCHANGED <<accepted, sends, now>>

\* The next iteration of the loop.
NextJob(w) == [worker[w] EXCEPT !.phase = "looping", !.job = NoId, !.code = "none"]

MarkDelivered(w, outcome) ==
  /\ worker[w].phase = "confirming"
  /\ Update(w, outcome, AsDelivered(row[worker[w].job], worker[w].now))
  /\ worker' = [worker EXCEPT ![w] = IF outcome = "ok" THEN NextJob(w) ELSE Catch(w)]

MarkDead(w, outcome) ==
  /\ worker[w].phase = "expiring"
  /\ Update(w, outcome, AsDead(row[worker[w].job], worker[w].code))
  /\ worker' = [worker EXCEPT ![w] = IF outcome = "ok" THEN NextJob(w) ELSE Catch(w)]

\* A markFailed for a missing recipient is inside the try block; one issued by
\* the catch block is not, and its exception ends processOnce: the rest of the
\* batch stays leased until the lease runs out.
MarkFailed(w, outcome) ==
  /\ worker[w].phase = "failing"
  /\ Update(w, outcome, AsFailed(row[worker[w].job], worker[w].code, worker[w].now))
  /\ worker' = [worker EXCEPT ![w] =
       IF outcome = "ok" THEN NextJob(w)
       ELSE IF worker[w].code = "recipient-unavailable" THEN Catch(w) ELSE IdleWorker]

-----------------------------------------------------------------------------
(* The environment.                                                        *)

\* The process dies, or claimBatch rejects: the leases it took stay behind.
Crash(w) ==
  /\ worker[w].phase # "idle"
  /\ faults < MaxFaults
  /\ worker' = [worker EXCEPT ![w] = IdleWorker]
  /\ faults' = faults + 1
  /\ UNCHANGED <<row, accepted, sends, now>>

\* A live message waits for its retry, the end of its lease or of its secret.
TimerPending ==
  \E i \in Ids : /\ row[i].status \in {"PENDING", "PROCESSING"}
                 /\ \/ now < row[i].availableAt
                    \/ now < row[i].leaseExpiresAt
                    \/ now < row[i].expiresAt

\* With PromptWorkers a call of processOnce ends before the leases it took, and
\* the clock rests while nothing waits for it, so that no bound cuts a timer off.
MayTick ==
  PromptWorkers =>
    /\ TimerPending
    /\ \A w \in Workers :
         worker[w].phase # "idle" => now + 1 < worker[w].claimedAt + LeaseDuration

Tick ==
  /\ now < MaxTime
  /\ MayTick
  /\ now' = now + 1
  /\ UNCHANGED <<row, worker, accepted, sends, faults>>

Step(w) ==
  \/ \E t \in Tokens : Start(w, t)
  \/ SelectBatch(w)
  \/ ClaimBatch(w)
  \/ Return(w)
  \/ \E i \in Ids, decrypts \in Decrypts : BeginJob(w, i, decrypts)
  \/ \E outcome \in {"found", "null", "throws"} : Resolve(w, outcome)
  \/ \E outcome \in {"accepted", "refused", "no-answer"} : Send(w, outcome)
  \/ \E outcome \in Outcomes :
       MarkDelivered(w, outcome) \/ MarkDead(w, outcome) \/ MarkFailed(w, outcome)

Next ==
  \/ \E i \in Ids, d \in Deliveries, ttl \in Ttls : Enqueue(i, d, ttl)
  \/ \E w \in Workers : Step(w) \/ Crash(w)
  \/ Tick

Spec == Init /\ [][Next]_vars

\* processOnce is called again and again, a running call proceeds, and time passes
\* whatever the workers do.
Fairness == SF_vars(Tick) /\ \A w \in Workers : WF_vars(Step(w))

FairSpec == Spec /\ Fairness

-----------------------------------------------------------------------------
(* Properties.                                                             *)

\* Every variable has its type.
TypeOK ==
  /\ row \in [Ids -> Row]
  /\ worker \in [Workers -> Worker]
  /\ accepted \subseteq Deliveries
  /\ sends \in [Ids -> Nat]
  /\ now \in Nat
  /\ faults \in Nat

\* An event is enqueued at most once however often it is delivered to the sink:
\* no two messages share a dedupe key (outbox.ts deliver, postgres-store.ts enqueue).
UniqueDelivery ==
  \A i, j \in Ids :
    i # j /\ row[i].status # "ABSENT" => row[i].dedupeKey # row[j].dedupeKey

\* A lease held by a running processOnce is for work it has yet to settle: no
\* path through the loop forgets a job of the batch and leaves it leased until
\* the lease runs out (outbox.ts processOnce).
LeaseIsOwned ==
  \A i \in Ids, w \in Workers :
    worker[w].token # NoToken /\ row[i].leaseToken = worker[w].token =>
      i \in worker[w].jobs \union {worker[w].job}

\* The retry budget: a live message has attempts left, and a message is dead
\* only when its attempts are used up or its secret expired before it could be
\* delivered (postgres-store.ts markFailed and markDead).
RetryBudget ==
  \A i \in Ids :
    /\ row[i].status \in {"PENDING", "PROCESSING"} => row[i].attemptCount < MaxAttempts
    /\ row[i].attemptCount <= MaxAttempts
    /\ row[i].status = "DEAD" =>
         \/ row[i].attemptCount = MaxAttempts
         \/ row[i].errorCode = "delivery-expired" /\ row[i].expiresAt <= now

\* At-least-once: a message is marked delivered only after the provider accepted
\* its delivery, and with a time at which the secret was still valid, whatever
\* leases were lost and whoever reclaimed the message (outbox.ts processOnce).
DeliveredWasAccepted ==
  \A i \in Ids :
    row[i].status = "DELIVERED" =>
      row[i].dedupeKey \in accepted /\ row[i].deliveredAt < row[i].expiresAt

\* Fencing: a lease ends only by the hand of the worker that holds it and is
\* settling that message, or by a claim after the lease ran out.  A stale worker
\* whose message was reclaimed changes nothing (postgres-store.ts, the WHERE
\* clauses of the three marks and of claimBatch).
LeaseEndsInOrder(i) ==
  row[i].status = "PROCESSING" /\ row'[i] # row[i] =>
    \/ /\ row'[i].leaseToken # row[i].leaseToken
       /\ row'[i].status = "PROCESSING"
       /\ row[i].leaseExpiresAt <= now
    \/ \E w \in Workers : worker[w].token = row[i].leaseToken /\ worker[w].job = i

FencedRelease == [][\A i \in Ids : LeaseEndsInOrder(i)]_vars

\* The claims of two calls read the clock at least one lease apart.
ALeaseApart(p, q) ==
  \/ p.claimedAt + LeaseDuration <= q.claimedAt
  \/ q.claimedAt + LeaseDuration <= p.claimedAt

\* How far sends can overlap when a batch outlives its lease, however slow its sends
\* are: two processes have a message at the provider, or wait to confirm it, only if
\* the lease of one was over when the other read its clock (outbox.ts processOnce,
\* one lease for a batch sent one by one; postgres-store.ts claimBatch, markFailed).
SendsALeaseApart ==
  \A v, w \in Workers :
    v # w /\ worker[v].job = worker[w].job
          /\ {worker[v].phase, worker[w].phase} \subseteq {"sending", "confirming"} =>
      ALeaseApart(worker[v], worker[w])

\* With prompt workers a message is handed to the provider at most MaxAttempts times,
\* and once more for each crash or failed statement (postgres-store.ts markFailed).
ResendsAreFaults == \A i \in Ids : sends[i] <= MaxAttempts + faults

\* A message is handed to the provider at most MaxAttempts times.
SendsWithinBudget == \A i \in Ids : sends[i] <= MaxAttempts

\* Every enqueued message is settled in the end (outbox.ts processOnce).
EventuallySettled ==
  \A i \in Ids : row[i].status # "ABSENT" ~> row[i].status \in Terminal

-----------------------------------------------------------------------------
(* The inductive invariant.                                                *)

Busy == {"resolving", "sending", "confirming", "expiring", "failing"}

\* A row is blank until it is enqueued, and leased exactly while it is PROCESSING.
RowsOK ==
  \A i \in Ids :
    /\ row[i].status = "ABSENT" => row[i] = NoRow
    /\ row[i].status # "ABSENT" => row[i].dedupeKey \in Deliveries
    /\ row[i].leaseToken # NoToken <=> row[i].status = "PROCESSING"

\* What the locals of a processOnce say of the table, the clock and the provider.
LocalsOK(q) ==
  /\ q.phase = "idle" <=> q.token = NoToken
  /\ q.job \in Ids <=> q.phase \in Busy
  /\ q.claimedAt <= now /\ q.now <= now
  /\ \A i \in q.jobs : row[i].status # "ABSENT"
  /\ q.job \in Ids => row[q.job].status # "ABSENT"
  /\ q.phase \in {"resolving", "sending", "confirming"} => q.now < row[q.job].expiresAt
  /\ q.phase = "confirming" => row[q.job].dedupeKey \in accepted
  /\ q.phase = "expiring" =>
       q.code = "delivery-expired" /\ row[q.job].expiresAt <= now
  /\ q.phase \in {"claiming", "locking"} =>
       \A i \in Ids : row[i].leaseToken # q.token
  /\ q.phase = "locking" => \A i \in q.jobs : Claimable(i, q.claimedAt)

\* Two workers never share a token, nor lock the same candidate.
Apart(v, w) ==
  /\ worker[v].token # NoToken => worker[v].token # worker[w].token
  /\ worker[v].phase = "locking" /\ worker[w].phase = "locking" =>
       worker[v].jobs \intersect worker[w].jobs = {}

\* Everything the safety properties rest on: strong enough to be preserved by
\* every step (claimBatch's row locks, fresh tokens, the checks of processOnce).
IndInv ==
  /\ TypeOK
  /\ RowsOK
  /\ \A w \in Workers : LocalsOK(worker[w])
  /\ \A v, w \in Workers : v # w => Apart(v, w)
  /\ RetryBudget
  /\ DeliveredWasAccepted
  /\ UniqueDelivery
  /\ LeaseIsOwned

-----------------------------------------------------------------------------
(* What a batch that may outlive its lease still knows of its messages.     *)

\* The messages of its batch that a call has not begun to settle.
InHand(q) ==
  IF q.phase \in {"idle", "claiming", "locking"} THEN {}
  ELSE q.jobs \union {i \in {q.job} : q.phase \in {"resolving", "sending", "confirming"}}

LeaseEnd(q) == q.claimedAt + LeaseDuration

\* Another call claimed the message after the lease of q had run out: whatever came of
\* it, the row keeps times that a claim from before that moment does not meet.
Overtaken(q, r) ==
  /\ LeaseEnd(q) <= now
  /\ r.status = "PENDING" => LeaseEnd(q) <= r.availableAt
  /\ r.status = "PROCESSING" => LeaseEnd(q) + LeaseDuration <= r.leaseExpiresAt

LeaseKnown(w) ==
  LET q == worker[w] IN
  /\ q.claimedAt <= q.now /\ q.job \notin q.jobs
  /\ \A i \in Ids : Holds(w, i) => row[i].leaseExpiresAt = LeaseEnd(q)
  /\ \A i \in InHand(q) : Holds(w, i) \/ Overtaken(q, row[i])

\* A message in hand is leased to its call or was overtaken, and two calls that have it
\* in hand claimed it a lease apart.
LeaseInv ==
  /\ \A w \in Workers : LeaseKnown(w)
  /\ \A v, w \in Workers : v # w =>
       \A i \in InHand(worker[v]) \intersect InHand(worker[w]) :
         ALeaseApart(worker[v], worker[w])

-----------------------------------------------------------------------------
(* The outbox implements the delivery contract.                            *)

StageOf(r) ==
  CASE r.status = "ABSENT" -> "none"
    [] r.status \in {"PENDING", "PROCESSING"} -> "live"
    [] r.status = "DELIVERED" -> "delivered"
    [] r.status = "DEAD" -> "dead"

Contract == INSTANCE DeliveryContract WITH
  stage <- [i \in Ids |-> StageOf(row[i])],
  key <- [i \in Ids |-> row[i].dedupeKey]

\* Forgetting leases, retries and workers, the outbox behaves as the contract
\* says: confirmed only after acceptance, settled for good.
ImplementsContract == Contract!Spec
=============================================================================
