----------------------- MODULE NotificationOutboxProofs -----------------------
(* Theorems about NotificationOutbox, for every value of its constants. *)
EXTENDS NotificationOutbox, TLAPS

(* Lemmas about the operators. *)

\* A retry delay is a natural number, whatever the attempt count.
LEMMA RetryDelayType == ASSUME NEW n \in Nat PROVE RetryDelay(n) \in Nat
<1>1. Doublings(n) \in 0..16
  BY DEF Doublings
<1>2. PICK f \in Nat : f = 2^Doublings(n)
  BY <1>1, OutboxAssumption
<1>3. BaseDelay * f \in Nat
  BY OutboxAssumption
<1>4. RetryDelay(n) = IF BaseDelay * f < MaxDelay THEN BaseDelay * f ELSE MaxDelay
  BY <1>2, Zenon DEF RetryDelay
<1> QED
  BY <1>3, <1>4, OutboxAssumption

\* Every settled form of a row is a row.
LEMMA SettledRowType ==
  ASSUME NEW r \in Row, NEW at \in Nat, NEW code \in ErrorCodes
  PROVE  /\ AsDelivered(r, at) \in Row
         /\ AsDead(r, code) \in Row
         /\ AsFailed(r, code, at) \in Row
<1> DEFINE u == Unleased(r)
<1>1. u \in Row
  BY DEF Unleased, Row
<1>2. /\ r.attemptCount \in Nat /\ u.attemptCount \in Nat
      /\ u.attemptCount + 1 \in Nat
  BY <1>1 DEF Row
<1> HIDE DEF u
<1>3. AsDelivered(r, at) \in Row
  <2>1. [u EXCEPT !.status = "DELIVERED", !.deliveredAt = at, !.errorCode = "none"] \in Row
    BY <1>1 DEF Row, Statuses, ErrorCodes
  <2> QED
    BY <2>1 DEF AsDelivered, u
<1>4. AsDead(r, code) \in Row
  <2>1. \A n \in Nat :
          [u EXCEPT !.status = "DEAD", !.attemptCount = n, !.errorCode = code] \in Row
    BY <1>1 DEF Row, Statuses
  <2>2. [u EXCEPT !.status = "DEAD", !.attemptCount = u.attemptCount + 1,
                  !.errorCode = code] \in Row
    BY <2>1, <1>2
  <2> QED
    BY <2>2 DEF AsDead, u
<1>5. AsFailed(r, code, at) \in Row
  <2>1. at + RetryDelay(r.attemptCount) \in Nat
    BY <1>2, RetryDelayType
  <2>2. \A n, m \in Nat :
          [u EXCEPT !.status = "PENDING", !.attemptCount = n, !.availableAt = m,
                    !.errorCode = code] \in Row
    BY <1>1 DEF Row, Statuses
  <2>3. [u EXCEPT !.status = "PENDING", !.attemptCount = u.attemptCount + 1,
                  !.availableAt = at + RetryDelay(r.attemptCount),
                  !.errorCode = code] \in Row
    BY <2>1, <2>2, <1>2
  <2> QED
    BY <2>3, <1>4 DEF AsFailed, u
<1> QED
  BY <1>3, <1>4, <1>5

\* A form of row r that keeps its identity and gives up its lease.
Released(q, r) ==
  q.dedupeKey = r.dedupeKey /\ q.expiresAt = r.expiresAt /\ q.leaseToken = NoToken

\* The fields a settled form keeps, and the ones it changes.
LEMMA SettledRowFields ==
  ASSUME NEW r \in Row, NEW at \in Nat, NEW code \in ErrorCodes
  PROVE  /\ Released(AsDelivered(r, at), r)
         /\ Released(AsDead(r, code), r)
         /\ Released(AsFailed(r, code, at), r)
         /\ AsDelivered(r, at).status = "DELIVERED"
         /\ AsDelivered(r, at).deliveredAt = at
         /\ AsDelivered(r, at).attemptCount = r.attemptCount
         /\ AsDead(r, code).status = "DEAD"
         /\ AsDead(r, code).errorCode = code
         /\ AsDead(r, code).attemptCount = r.attemptCount + 1
         /\ AsFailed(r, code, at).attemptCount = r.attemptCount + 1
         /\ AsFailed(r, code, at).status =
              IF r.attemptCount + 1 >= MaxAttempts THEN "DEAD" ELSE "PENDING"
         /\ AsFailed(r, code, at).status = "PENDING" => at <= AsFailed(r, code, at).availableAt
<1> DEFINE u == Unleased(r)
<1>1. /\ u \in Row /\ u.leaseToken = NoToken /\ u.dedupeKey = r.dedupeKey
      /\ u.expiresAt = r.expiresAt /\ u.attemptCount = r.attemptCount
  BY DEF Unleased, Row
<1> HIDE DEF u
<1>2. AsDelivered(r, at) =
        [u EXCEPT !.status = "DELIVERED", !.deliveredAt = at, !.errorCode = "none"]
  BY DEF AsDelivered, u
<1>3. AsDead(r, code) =
        [u EXCEPT !.status = "DEAD", !.attemptCount = @ + 1, !.errorCode = code]
  BY DEF AsDead, u
<1>4. AsFailed(r, code, at) =
        IF r.attemptCount + 1 >= MaxAttempts THEN AsDead(r, code)
        ELSE [u EXCEPT !.status = "PENDING", !.attemptCount = @ + 1,
                       !.availableAt = at + RetryDelay(r.attemptCount),
                       !.errorCode = code]
  BY DEF AsFailed, u
<1>5. r.attemptCount \in Nat /\ at + RetryDelay(r.attemptCount) \in Nat
      /\ at <= at + RetryDelay(r.attemptCount)
  <2>1. r.attemptCount \in Nat
    BY DEF Row
  <2> QED
    BY <2>1, RetryDelayType
<1>6. AsDead(r, code).status = "DEAD"
  BY <1>1, <1>3 DEF Row
<1>7. AsFailed(r, code, at).status = "PENDING" => at <= AsFailed(r, code, at).availableAt
  BY <1>1, <1>4, <1>5, <1>6 DEF Row
<1> QED
  BY <1>1, <1>2, <1>3, <1>4, <1>7 DEF Row, Released

-----------------------------------------------------------------------------
(* Type correctness.                                                       *)

\* What a worker is after each way of leaving a job.
LEMMA WorkerForms ==
  ASSUME TypeOK, NEW w \in Workers
  PROVE  IdleWorker \in Worker /\ NextJob(w) \in Worker /\ Catch(w) \in Worker
BY DEF TypeOK, Worker, IdleWorker, NextJob, Catch, Phases, ErrorCodes

\* A mark leaves the table well typed.
LEMMA UpdateType ==
  ASSUME TypeOK, NEW w \in Workers, NEW outcome \in Outcomes, NEW settled,
         worker[w].job \in Ids => settled \in Row,
         Update(w, outcome, settled)
  PROVE  /\ row' \in [Ids -> Row]
         /\ accepted' \subseteq Deliveries /\ sends' \in [Ids -> Nat]
         /\ now' \in Nat /\ faults' \in Nat
<1>1. faults' \in Nat
  BY DEF Update, TypeOK
<1>2. row' \in [Ids -> Row]
  BY DEF Update, TypeOK
<1> QED
  BY <1>1, <1>2 DEF Update, TypeOK

\* The initial state has its types.
LEMMA InitType == Init => TypeOK
BY OutboxAssumption DEF Init, TypeOK, Row, Worker, NoRow, IdleWorker, Statuses,
   Phases, ErrorCodes

-----------------------------------------------------------------------------
(* The inductive invariant.  A step changes the locals of one worker, one    *)
(* row, or both; the lemmas below say under which conditions each kind of    *)
(* change preserves IndInv, and the lemmas after them that every action      *)
(* meets those conditions.                                                   *)

\* The initial state satisfies the invariant.
LEMMA InitInv == Init => IndInv
<1> SUFFICES ASSUME Init PROVE IndInv
  OBVIOUS
<1>1. TypeOK
  BY InitType
<1>2. \A i \in Ids : row[i] = NoRow
  BY DEF Init
<1>3. \A w \in Workers : worker[w] = IdleWorker
  BY DEF Init
<1>4. RowsOK /\ RetryBudget /\ DeliveredWasAccepted /\ UniqueDelivery /\ LeaseIsOwned
  BY <1>2, <1>3, OutboxAssumption
     DEF RowsOK, RetryBudget, DeliveredWasAccepted, UniqueDelivery, LeaseIsOwned,
         NoRow, IdleWorker
<1>5. \A w \in Workers : LocalsOK(worker[w])
  BY <1>3, OutboxAssumption DEF Init, LocalsOK, IdleWorker, Busy
<1>6. \A v, w \in Workers : Apart(v, w)
  BY <1>3 DEF Apart, IdleWorker
<1> QED
  BY <1>1, <1>4, <1>5, <1>6 DEF IndInv

\* A step of one worker that leaves the table and the clock alone.
LEMMA WorkerStep ==
  ASSUME IndInv, NEW w \in Workers,
         worker' = [worker EXCEPT ![w] = worker'[w]], worker'[w] \in Worker,
         UNCHANGED <<row, now>>,
         accepted \subseteq accepted', accepted' \subseteq Deliveries,
         sends' \in [Ids -> Nat], faults' \in Nat,
         LocalsOK(worker[w])',
         \/ worker'[w].token \in {worker[w].token, NoToken}
         \/ \A v \in Workers : worker[v].token # worker'[w].token,
         worker'[w].phase = "locking" =>
           \A v \in Workers \ {w} :
             worker[v].phase = "locking" =>
               worker'[w].jobs \intersect worker[v].jobs = {},
         worker'[w].token # NoToken =>
           \A i \in Ids : row[i].leaseToken = worker'[w].token =>
                            i \in worker'[w].jobs \union {worker'[w].job}
  PROVE  IndInv'
<1>1. /\ worker' \in [Workers -> Worker]
      /\ \A v \in Workers \ {w} : worker'[v] = worker[v]
  BY DEF TypeOK, IndInv
<1>2. TypeOK'
  BY <1>1 DEF TypeOK, IndInv
<1>3. RowsOK' /\ RetryBudget' /\ UniqueDelivery'
  BY DEF IndInv, RowsOK, RetryBudget, UniqueDelivery
<1>4. DeliveredWasAccepted'
  BY DEF IndInv, DeliveredWasAccepted
<1>5. \A v \in Workers : LocalsOK(worker[v])'
  <2> SUFFICES ASSUME NEW v \in Workers, v # w PROVE LocalsOK(worker[v])'
    OBVIOUS
  <2> QED
    BY <1>1 DEF IndInv, LocalsOK, Claimable
<1>6. \A u, v \in Workers : u # v => Apart(u, v)'
  BY <1>1 DEF IndInv, Apart
<1>7. LeaseIsOwned'
  BY <1>1 DEF IndInv, LeaseIsOwned
<1> QED
  BY <1>2, <1>3, <1>4, <1>5, <1>6, <1>7 DEF IndInv

\* A committed enqueue fills a blank row.
LEMMA EnqueueInv ==
  ASSUME IndInv, NEW i \in Ids, NEW d \in Deliveries, NEW ttl \in Ttls, Enqueue(i, d, ttl)
  PROVE  IndInv'
<1> USE DEF IndInv
<1> DEFINE new == row'[i]
<1>1. /\ new \in Row /\ new.status = "PENDING" /\ new.dedupeKey = d
      /\ new.leaseToken = NoToken /\ new.attemptCount = 0
  <2>1. \A n, m \in Nat : [NoRow EXCEPT !.status = "PENDING", !.dedupeKey = d,
                             !.availableAt = n, !.expiresAt = m] \in Row
    BY DEF Row, NoRow, Statuses, ErrorCodes
  <2>2. new = [NoRow EXCEPT !.status = "PENDING", !.dedupeKey = d,
                 !.availableAt = now, !.expiresAt = now + ttl]
    BY DEF Enqueue, TypeOK
  <2>3. now \in Nat /\ now + ttl \in Nat
    BY OutboxAssumption DEF TypeOK
  <2>4. new \in Row
    BY <2>1, <2>2, <2>3
  <2> QED
    BY <2>2, <2>4 DEF NoRow
<1>2. /\ row' \in [Ids -> Row]
      /\ \A j \in Ids \ {i} : row'[j] = row[j]
      /\ row[i].status = "ABSENT" /\ row[i] = NoRow
      /\ UNCHANGED <<worker, accepted, sends, now, faults>>
      /\ \A j \in Ids : row[j].dedupeKey # d
  BY <1>1 DEF Enqueue, TypeOK, RowsOK, NotEnqueued
<1> HIDE DEF new
<1>3. TypeOK'
  BY <1>2 DEF TypeOK
<1>4. RowsOK'
  BY <1>1, <1>2 DEF RowsOK, new
<1>5. RetryBudget'
  BY <1>1, <1>2, OutboxAssumption DEF RetryBudget, new
<1>6. DeliveredWasAccepted'
  BY <1>1, <1>2 DEF DeliveredWasAccepted, new
<1>7. UniqueDelivery'
  BY <1>1, <1>2 DEF UniqueDelivery, new
<1>8. LeaseIsOwned'
  BY <1>1, <1>2 DEF LeaseIsOwned, new
<1>9. \A w \in Workers : LocalsOK(worker[w])'
  <2> SUFFICES ASSUME NEW w \in Workers PROVE LocalsOK(worker[w])'
    OBVIOUS
  <2>1. i \notin worker[w].jobs /\ worker[w].job # i
    BY <1>2 DEF LocalsOK
  <2>2. worker[w] \in Worker /\ LocalsOK(worker[w])
    BY DEF TypeOK
  <2>3. worker[w].jobs \subseteq Ids \ {i}
    BY <2>1, <2>2 DEF Worker
  <2>4. worker[w].phase \in {"claiming", "locking"} => worker[w].token # NoToken
    BY <2>2 DEF LocalsOK
  <2> QED
    BY <1>1, <1>2, <2>1, <2>2, <2>3, <2>4 DEF LocalsOK, Claimable, new, Busy
<1>10. \A v, w \in Workers : v # w => Apart(v, w)'
  BY <1>2 DEF Apart
<1> QED
  BY <1>3, <1>4, <1>5, <1>6, <1>7, <1>8, <1>9, <1>10

\* A processor starts with a fresh token.
LEMMA StartInv ==
  ASSUME IndInv, NEW w \in Workers, NEW t \in Tokens, Start(w, t)
  PROVE  IndInv'
<1> DEFINE q == worker'[w]
<1>1. /\ worker' = [worker EXCEPT ![w] = q]
      /\ q = [IdleWorker EXCEPT !.phase = "claiming", !.token = t,
                                !.claimedAt = now, !.now = now]
      /\ UNCHANGED <<row, accepted, sends, now, faults>>
      /\ Fresh(t) /\ t # NoToken /\ TypeOK
  BY OutboxAssumption DEF Start, IndInv, TypeOK
<1> HIDE DEF q
<1>2. /\ q \in Worker /\ q.phase = "claiming" /\ q.token = t /\ q.jobs = {}
      /\ q.job = NoId /\ q.claimedAt = now /\ q.now = now
  BY <1>1 DEF TypeOK, Worker, IdleWorker, Phases, ErrorCodes
<1>3. LocalsOK(worker[w])'
  BY <1>1, <1>2, OutboxAssumption DEF q, LocalsOK, Fresh, Busy, TypeOK
<1> QED
  BY <1>1, <1>2, <1>3, WorkerStep DEF q, Fresh, TypeOK

\* A claim locks candidates nobody else has locked.
LEMMA SelectBatchInv ==
  ASSUME IndInv, NEW w \in Workers, SelectBatch(w)
  PROVE  IndInv'
<1> DEFINE q == worker'[w]
<1>1. PICK batch \in SUBSET Ids :
        /\ \A i \in batch : Claimable(i, worker[w].claimedAt) /\ ~Locked(i)
        /\ worker' = [worker EXCEPT ![w].phase = "locking", ![w].jobs = batch]
  BY DEF SelectBatch
<1>2. /\ worker' = [worker EXCEPT ![w] = q]
      /\ q = [worker[w] EXCEPT !.phase = "locking", !.jobs = batch]
      /\ UNCHANGED <<row, accepted, sends, now, faults>>
      /\ worker[w].phase = "claiming" /\ TypeOK /\ LocalsOK(worker[w])
  BY <1>1 DEF SelectBatch, IndInv, TypeOK
<1> HIDE DEF q
<1>3. /\ q \in Worker /\ q.phase = "locking" /\ q.jobs = batch
      /\ q.token = worker[w].token /\ q.job = worker[w].job
      /\ q.claimedAt = worker[w].claimedAt /\ q.now = worker[w].now
  BY <1>2 DEF TypeOK, Worker, Phases
<1>4. LocalsOK(worker[w])'
  BY <1>1, <1>2, <1>3 DEF q, LocalsOK, Claimable, Busy
<1>5. \A v \in Workers \ {w} :
        worker[v].phase = "locking" => q.jobs \intersect worker[v].jobs = {}
  BY <1>1, <1>3 DEF Locked
<1>6. \A i \in Ids : row[i].leaseToken # q.token
  BY <1>2, <1>3 DEF LocalsOK
<1> QED
  BY <1>2, <1>3, <1>4, <1>5, <1>6, WorkerStep DEF q, TypeOK

\* A claim leases the rows it locked.
LEMMA ClaimBatchInv ==
  ASSUME IndInv, NEW w \in Workers, ClaimBatch(w)
  PROVE  IndInv'
<1> DEFINE J == worker[w].jobs
<1>1. /\ TypeOK /\ RowsOK /\ LocalsOK(worker[w])
      /\ worker[w].phase = "locking"
      /\ worker[w].token \in Tokens /\ J \subseteq Ids
      /\ worker' = [worker EXCEPT ![w].phase = "looping"]
      /\ UNCHANGED <<accepted, sends, now, faults>>
  BY DEF IndInv, ClaimBatch, TypeOK, Worker, LocalsOK
<1>2. \A i \in J : /\ Claimable(i, worker[w].claimedAt)
                   /\ row[i].status \in {"PENDING", "PROCESSING"}
  BY <1>1 DEF LocalsOK, Claimable
<1>3. /\ row' \in [Ids -> Row]
      /\ \A i \in Ids \ J : row'[i] = row[i]
      /\ \A i \in J : /\ row'[i].status = "PROCESSING"
                      /\ row'[i].leaseToken = worker[w].token
                      /\ row'[i].dedupeKey = row[i].dedupeKey
                      /\ row'[i].attemptCount = row[i].attemptCount
                      /\ row'[i].availableAt = row[i].availableAt
                      /\ row'[i].expiresAt = row[i].expiresAt
  <2>1. worker[w].claimedAt + LeaseDuration \in Nat
    BY <1>1, OutboxAssumption DEF TypeOK, Worker
  <2>2. \A r \in Row, n \in Nat :
          [r EXCEPT !.status = "PROCESSING", !.leaseToken = worker[w].token,
                    !.leaseExpiresAt = n] \in Row
    BY <1>1 DEF Row, Statuses
  <2>3. \A i \in Ids : Lease(row[i], w) \in Row
    BY <1>1, <2>1, <2>2 DEF Lease, TypeOK
  <2>4. row' = [i \in Ids |-> IF i \in J THEN Lease(row[i], w) ELSE row[i]]
    BY DEF ClaimBatch
  <2>5. row' \in [Ids -> Row] /\ \A i \in Ids \ J : row'[i] = row[i]
    BY <1>1, <2>3, <2>4 DEF TypeOK
  <2>6. \A i \in J : row'[i] = Lease(row[i], w) /\ row[i] \in Row
    BY <1>1, <2>4 DEF TypeOK
  <2>8. ASSUME NEW i \in J
        PROVE  /\ row'[i].status = "PROCESSING" /\ row'[i].leaseToken = worker[w].token
               /\ row'[i].dedupeKey = row[i].dedupeKey
               /\ row'[i].attemptCount = row[i].attemptCount
               /\ row'[i].availableAt = row[i].availableAt
               /\ row'[i].expiresAt = row[i].expiresAt
    <3>1. PICK n \in Nat :
            row'[i] = [row[i] EXCEPT !.status = "PROCESSING", !.leaseToken = worker[w].token,
                                     !.leaseExpiresAt = n]
      BY <2>1, <2>6 DEF Lease
    <3> QED
      BY <3>1, <2>6 DEF Row
  <2> QED
    BY <2>5, <2>8
<1>4. /\ worker' \in [Workers -> Worker]
      /\ \A v \in Workers \ {w} : worker'[v] = worker[v]
      /\ worker'[w] = [worker[w] EXCEPT !.phase = "looping"]
      /\ worker'[w].phase = "looping" /\ worker'[w].token = worker[w].token
      /\ worker'[w].jobs = J /\ worker'[w].job = worker[w].job
      /\ worker'[w].claimedAt = worker[w].claimedAt /\ worker'[w].now = worker[w].now
  BY <1>1 DEF TypeOK, Worker, Phases
<1> HIDE DEF J
<1>5. TypeOK'
  BY <1>1, <1>3, <1>4 DEF TypeOK
<1>6. RowsOK'
  BY <1>1, <1>2, <1>3, OutboxAssumption DEF RowsOK, NoRow
<1>7. RetryBudget'
  BY <1>1, <1>2, <1>3 DEF IndInv, RetryBudget
<1>8. DeliveredWasAccepted'
  BY <1>1, <1>3 DEF IndInv, DeliveredWasAccepted
<1>9. UniqueDelivery'
  BY <1>1, <1>2, <1>3 DEF IndInv, UniqueDelivery
<1>10. LeaseIsOwned'
  BY <1>1, <1>3, <1>4 DEF IndInv, LeaseIsOwned, Apart, J
<1>11. \A v \in Workers : LocalsOK(worker[v])'
  <2>1. LocalsOK(worker[w])'
    BY <1>1, <1>2, <1>3, <1>4 DEF LocalsOK, J, Busy
  <2>2. ASSUME NEW v \in Workers, v # w PROVE LocalsOK(worker[v])'
    <3>1. /\ worker'[v] = worker[v] /\ LocalsOK(worker[v]) /\ Apart(w, v)
          /\ worker[v] \in Worker
      BY <1>1, <1>4, <2>2 DEF IndInv, TypeOK
    <3>2. \A i \in Ids : row[i].status # "ABSENT" => row'[i].status # "ABSENT"
      BY <1>3
    <3>3. \A i \in Ids : /\ row'[i].dedupeKey = row[i].dedupeKey
                         /\ row'[i].expiresAt = row[i].expiresAt
      BY <1>3
    <3>4. worker[v].phase \in {"claiming", "locking"} =>
            \A i \in Ids : row'[i].leaseToken # worker[v].token
      BY <1>1, <1>3, <3>1, OutboxAssumption DEF LocalsOK, Apart
    <3>5. worker[v].phase = "locking" =>
            \A i \in worker[v].jobs : Claimable(i, worker[v].claimedAt)'
      BY <1>1, <1>3, <1>4, <3>1 DEF LocalsOK, Apart, Claimable, J, Worker
    <3> QED
      BY <1>1, <3>1, <3>2, <3>3, <3>4, <3>5 DEF LocalsOK, Worker, Claimable, Busy
  <2> QED
    BY <2>1, <2>2
<1>12. \A u, v \in Workers : u # v => Apart(u, v)'
  <2>1. \A v \in Workers : /\ worker'[v].token = worker[v].token
                           /\ worker'[v].jobs = worker[v].jobs
                           /\ worker'[v].phase = "locking" => worker[v].phase = "locking"
    BY <1>4 DEF J
  <2> QED
    BY <2>1 DEF IndInv, Apart
<1> QED
  BY <1>5, <1>6, <1>7, <1>8, <1>9, <1>10, <1>11, <1>12 DEF IndInv

\* Return, Crash and a failing markFailed: the worker forgets everything.
LEMMA IdleInv ==
  ASSUME IndInv, NEW w \in Workers, worker' = [worker EXCEPT ![w] = IdleWorker],
         UNCHANGED <<row, accepted, sends, now>>, faults' \in Nat
  PROVE  IndInv'
<1>1. /\ worker'[w] = IdleWorker /\ IdleWorker \in Worker /\ TypeOK
      /\ IdleWorker.token = NoToken /\ IdleWorker.phase = "idle"
      /\ IdleWorker.job = NoId /\ IdleWorker.jobs = {}
      /\ IdleWorker.claimedAt = 0 /\ IdleWorker.now = 0
      /\ worker' = [worker EXCEPT ![w] = worker'[w]]
  BY WorkerForms DEF IndInv, TypeOK, IdleWorker
<1>2. LocalsOK(worker[w])'
  BY <1>1, OutboxAssumption DEF LocalsOK, Busy, TypeOK
<1> QED
  BY <1>1, <1>2, WorkerStep DEF TypeOK

\* A job is at hand, or leads to its marking, still unsettled.
LEMMA BeginJobInv ==
  ASSUME IndInv, NEW w \in Workers, NEW i \in Ids, NEW b \in Decrypts, BeginJob(w, i, b)
  PROVE  IndInv'
<1> DEFINE q == worker'[w]
<1>1. /\ TypeOK /\ LocalsOK(worker[w]) /\ worker[w].phase = "looping" /\ i \in worker[w].jobs
      /\ UNCHANGED <<row, accepted, sends, now, faults>>
      /\ worker' = [worker EXCEPT ![w] = q]
      /\ row[i].status # "ABSENT" /\ row[i] \in Row /\ worker[w] \in Worker
  BY DEF BeginJob, IndInv, TypeOK, LocalsOK
<1>2. \E p \in {"failing", "expiring", "resolving"}, c \in ErrorCodes :
        /\ q = [worker[w] EXCEPT !.jobs = @ \ {i}, !.job = i, !.now = now,
                                 !.phase = p, !.code = c]
        /\ p = "expiring" => c = "delivery-expired" /\ row[i].expiresAt <= now
        /\ p = "resolving" => now < row[i].expiresAt
  <2>1. /\ ~b => q = [worker[w] EXCEPT !.jobs = @ \ {i}, !.job = i, !.now = now,
                               !.phase = "failing", !.code = "provider-error"]
        /\ b /\ row[i].expiresAt <= now =>
             q = [worker[w] EXCEPT !.jobs = @ \ {i}, !.job = i, !.now = now,
                                   !.phase = "expiring", !.code = "delivery-expired"]
        /\ b /\ ~(row[i].expiresAt <= now) =>
             q = [worker[w] EXCEPT !.jobs = @ \ {i}, !.job = i, !.now = now,
                                   !.phase = "resolving", !.code = "none"]
    BY <1>1 DEF BeginJob, TypeOK
  <2>2. row[i].expiresAt \in Nat /\ now \in Nat
    BY <1>1 DEF TypeOK, Row
  <2>3. ~(row[i].expiresAt <= now) => now < row[i].expiresAt
    BY <2>2
  <2> HIDE DEF q
  <2> QED
    BY <2>1, <2>3, Zenon DEF ErrorCodes
<1> HIDE DEF q
<1>3. /\ q \in Worker /\ q.phase \in {"failing", "expiring", "resolving"}
      /\ q.jobs = worker[w].jobs \ {i} /\ q.job = i /\ q.now = now
      /\ q.token = worker[w].token /\ q.claimedAt = worker[w].claimedAt
      /\ q.phase = "expiring" => q.code = "delivery-expired" /\ row[i].expiresAt <= now
      /\ q.phase = "resolving" => now < row[i].expiresAt
  <2>1. worker[w].jobs \ {i} \in SUBSET Ids /\ now \in Nat
    BY <1>1 DEF TypeOK, Worker
  <2>2. PICK p \in {"failing", "expiring", "resolving"}, c \in ErrorCodes :
          /\ q = [worker[w] EXCEPT !.jobs = worker[w].jobs \ {i}, !.job = i, !.now = now,
                                   !.phase = p, !.code = c]
          /\ p = "expiring" => c = "delivery-expired" /\ row[i].expiresAt <= now
          /\ p = "resolving" => now < row[i].expiresAt
    BY <1>2
  <2> QED
    BY <1>1, <2>1, <2>2 DEF Worker, Phases
<1>4. LocalsOK(worker[w])'
  BY <1>1, <1>3 DEF q, LocalsOK, Busy, TypeOK, Worker
<1>6. q.phase # "locking"
  BY <1>3
<1>5. q.token # NoToken =>
        \A j \in Ids : row[j].leaseToken = q.token => j \in q.jobs \union {q.job}
  BY <1>1, <1>3 DEF IndInv, LeaseIsOwned, LocalsOK, Busy
<1> QED
  BY <1>1, <1>3, <1>4, <1>5, <1>6, WorkerStep DEF q, TypeOK

\* A step of one worker within the job at hand: only phase, clock and code change.
LEMMA JobStep ==
  ASSUME IndInv, NEW w \in Workers, worker[w].phase \in Busy,
         NEW p \in Busy, NEW n \in Nat, n <= now, NEW c \in ErrorCodes,
         worker' = [worker EXCEPT ![w] = [worker[w] EXCEPT !.phase = p, !.now = n, !.code = c]],
         UNCHANGED <<row, now>>,
         accepted \subseteq accepted', accepted' \subseteq Deliveries,
         sends' \in [Ids -> Nat], faults' \in Nat,
         p \in {"failing", "sending", "confirming"},
         p \in {"sending", "confirming"} => n < row[worker[w].job].expiresAt,
         p = "confirming" => row[worker[w].job].dedupeKey \in accepted'
  PROVE  IndInv'
<1> DEFINE q == worker'[w]
<1>1. /\ TypeOK /\ LocalsOK(worker[w]) /\ LeaseIsOwned /\ worker[w] \in Worker
      /\ q = [worker[w] EXCEPT !.phase = p, !.now = n, !.code = c]
      /\ worker' = [worker EXCEPT ![w] = q]
  BY DEF IndInv, TypeOK
<1> HIDE DEF q
<1>2. /\ q \in Worker /\ q.phase = p /\ q.now = n /\ q.code = c
      /\ q.token = worker[w].token /\ q.claimedAt = worker[w].claimedAt
      /\ q.jobs = worker[w].jobs /\ q.job = worker[w].job
  BY <1>1 DEF Worker, Phases, Busy
<1>3. LocalsOK(worker[w])'
  BY <1>1, <1>2 DEF q, LocalsOK, Busy
<1>4. q.token # NoToken =>
        \A j \in Ids : row[j].leaseToken = q.token => j \in q.jobs \union {q.job}
  BY <1>1, <1>2 DEF LeaseIsOwned
<1>5. q.phase # "locking"
  BY <1>2
<1> QED
  BY <1>1, <1>2, <1>3, <1>4, <1>5, WorkerStep DEF q

\* Resolving a recipient changes only the locals.
LEMMA ResolveInv ==
  ASSUME IndInv, NEW w \in Workers, NEW o \in {"found", "null", "throws"}, Resolve(w, o)
  PROVE  IndInv'
<1>1. /\ TypeOK /\ LocalsOK(worker[w]) /\ worker[w] \in Worker
      /\ worker[w].phase = "resolving"
      /\ UNCHANGED <<row, accepted, sends, now, faults>>
      /\ worker[w].now \in Nat /\ worker[w].now <= now /\ now \in Nat
      /\ worker[w].now < row[worker[w].job].expiresAt
      /\ now <= now
  BY DEF IndInv, TypeOK, Resolve, LocalsOK, Worker
<1>2. CASE o = "found"
  <2>1. worker' = [worker EXCEPT ![w] = [worker[w] EXCEPT !.phase = "sending",
                     !.now = worker[w].now, !.code = worker[w].code]]
    BY <1>1, <1>2 DEF Resolve, TypeOK, Worker
  <2> QED
    BY <1>1, <2>1, JobStep DEF TypeOK, Busy, Worker
<1>3. CASE o = "null"
  <2>1. worker' = [worker EXCEPT ![w] = [worker[w] EXCEPT !.phase = "failing",
                     !.now = worker[w].now, !.code = "recipient-unavailable"]]
    BY <1>1, <1>3 DEF Resolve, TypeOK, Worker
  <2> QED
    BY <1>1, <2>1, JobStep DEF TypeOK, Busy, ErrorCodes
<1>4. CASE o = "throws"
  <2>1. worker' = [worker EXCEPT ![w] = [worker[w] EXCEPT !.phase = "failing",
                     !.now = now, !.code = "provider-error"]]
    BY <1>1, <1>4 DEF Resolve, Catch
  <2> QED
    BY <1>1, <2>1, JobStep DEF TypeOK, Busy, ErrorCodes
<1> QED
  BY <1>2, <1>3, <1>4

\* A send leads to a confirmation only if the provider has accepted.
LEMMA SendInv ==
  ASSUME IndInv, NEW w \in Workers, NEW o \in {"accepted", "refused", "no-answer"}, Send(w, o)
  PROVE  IndInv'
<1> DEFINE j == worker[w].job
<1>1. /\ TypeOK /\ LocalsOK(worker[w]) /\ worker[w] \in Worker
      /\ worker[w].phase = "sending" /\ j \in Ids
      /\ row[j].dedupeKey \in Deliveries
      /\ worker[w].now \in Nat /\ worker[w].now <= now /\ now \in Nat /\ now <= now
      /\ worker[w].now < row[j].expiresAt
      /\ UNCHANGED <<row, now, faults>>
  BY DEF IndInv, TypeOK, Send, LocalsOK, Busy, RowsOK, Worker
<1>2. sends' \in [Ids -> Nat]
  <2>1. sends[j] + 1 \in Nat
    BY <1>1 DEF TypeOK
  <2> QED
    BY <1>1, <2>1 DEF Send, TypeOK
<1>3. /\ accepted \subseteq accepted' /\ accepted' \subseteq Deliveries
      /\ o = "accepted" => row[j].dedupeKey \in accepted'
  BY <1>1 DEF Send, TypeOK
<1>4. CASE o = "accepted"
  <2>1. worker' = [worker EXCEPT ![w] = [worker[w] EXCEPT !.phase = "confirming",
                     !.now = worker[w].now, !.code = worker[w].code]]
    BY <1>1, <1>4 DEF Send, TypeOK, Worker
  <2> QED
    BY <1>1, <1>2, <1>3, <1>4, <2>1, JobStep DEF TypeOK, Busy, Worker
<1>5. CASE o # "accepted"
  <2>1. worker' = [worker EXCEPT ![w] = [worker[w] EXCEPT !.phase = "failing",
                     !.now = now, !.code = "provider-error"]]
    BY <1>1, <1>5 DEF Send, Catch
  <2> QED
    BY <1>1, <1>2, <1>3, <2>1, JobStep DEF TypeOK, Busy, ErrorCodes
<1> QED
  BY <1>4, <1>5

-----------------------------------------------------------------------------
(* The fenced marks.                                                        *)

\* A mark that took effect: the row under the worker's token is settled or goes
\* back to PENDING, and the worker goes on, catches an exception or returns.
LEMMA SettleStep ==
  ASSUME IndInv, NEW w \in Workers, NEW j \in Ids, NEW s \in Row,
         j = worker[w].job, Holds(w, j), ~Locked(j),
         row' = [row EXCEPT ![j] = s],
         \/ worker' = [worker EXCEPT ![w] = NextJob(w)]
         \/ worker' = [worker EXCEPT ![w] = Catch(w)]
         \/ worker' = [worker EXCEPT ![w] = IdleWorker],
         worker[w].phase \in Busy,
         UNCHANGED <<accepted, sends, now>>, faults' \in Nat,
         s.dedupeKey = row[j].dedupeKey, s.expiresAt = row[j].expiresAt,
         s.leaseToken = NoToken, s.status \in {"PENDING", "DELIVERED", "DEAD"},
         s.attemptCount <= MaxAttempts,
         s.status = "PENDING" => s.attemptCount < MaxAttempts,
         s.status = "DEAD" => \/ s.attemptCount = MaxAttempts
                              \/ s.errorCode = "delivery-expired" /\ s.expiresAt <= now,
         s.status = "DELIVERED" => s.dedupeKey \in accepted /\ s.deliveredAt < s.expiresAt
  PROVE  IndInv'
<1> DEFINE q == worker'[w]
<1>1. /\ TypeOK /\ RowsOK /\ LocalsOK(worker[w]) /\ worker[w] \in Worker
      /\ worker[w].token # NoToken /\ row[j].leaseToken = worker[w].token
      /\ row[j].status = "PROCESSING" /\ row[j].dedupeKey \in Deliveries
  BY DEF IndInv, TypeOK, Holds, RowsOK, LocalsOK, Busy
<1>2. /\ row' \in [Ids -> Row] /\ row'[j] = s
      /\ \A i \in Ids \ {j} : row'[i] = row[i]
  BY <1>1 DEF TypeOK
<1>3. /\ q \in {NextJob(w), Catch(w), IdleWorker} /\ q \in Worker
      /\ worker' \in [Workers -> Worker]
      /\ \A v \in Workers \ {w} : worker'[v] = worker[v]
  BY <1>1, WorkerForms DEF TypeOK
<1> HIDE DEF q
<1>4. /\ q.phase \in {"looping", "failing", "idle"}
      /\ q.phase = "looping" => q.token = worker[w].token /\ q.job = NoId
                                /\ q.jobs = worker[w].jobs
      /\ q.phase = "failing" => q.token = worker[w].token /\ q.job = j
                                /\ q.jobs = worker[w].jobs
      /\ q.phase = "idle" => q.token = NoToken /\ q.job = NoId /\ q.jobs = {}
      /\ q.claimedAt <= now /\ q.now <= now
  <2>1. worker[w].claimedAt <= now /\ worker[w].now <= now /\ now \in Nat
    BY <1>1 DEF LocalsOK, TypeOK
  <2>2. CASE q = NextJob(w)
    BY <1>1, <2>1, <2>2 DEF NextJob, Worker
  <2>3. CASE q = Catch(w)
    BY <1>1, <2>1, <2>3 DEF Catch, Worker
  <2>4. CASE q = IdleWorker
    BY <2>1, <2>4 DEF IdleWorker
  <2> QED
    BY <1>3, <2>2, <2>3, <2>4
<1>5. TypeOK'
  BY <1>1, <1>2, <1>3 DEF TypeOK
<1>6. RowsOK'
  BY <1>1, <1>2 DEF RowsOK
<1>7. RetryBudget'
  BY <1>1, <1>2 DEF IndInv, RetryBudget
<1>8. DeliveredWasAccepted'
  BY <1>1, <1>2 DEF IndInv, DeliveredWasAccepted
<1>9. UniqueDelivery'
  BY <1>1, <1>2 DEF IndInv, UniqueDelivery
<1>10. LeaseIsOwned'
  <2> SUFFICES ASSUME NEW i \in Ids, NEW v \in Workers, worker'[v].token # NoToken,
                      row'[i].leaseToken = worker'[v].token
               PROVE  i \in worker'[v].jobs \union {worker'[v].job}
    BY DEF LeaseIsOwned
  <2>1. i # j /\ row[i].leaseToken = worker'[v].token
    BY <1>2
  <2>2. CASE v # w
    BY <1>3, <2>1, <2>2 DEF IndInv, LeaseIsOwned
  <2>3. CASE v = w
    BY <1>1, <1>4, <2>1, <2>3 DEF IndInv, LeaseIsOwned, q
  <2> QED
    BY <2>2, <2>3
<1>11. \A v \in Workers : LocalsOK(worker[v])'
  <2>1. /\ \A i \in Ids : /\ row[i].status # "ABSENT" => row'[i].status # "ABSENT"
                          /\ row'[i].dedupeKey = row[i].dedupeKey
                          /\ row'[i].expiresAt = row[i].expiresAt
                          /\ row'[i].leaseToken \in {row[i].leaseToken, NoToken}
    BY <1>1, <1>2
  <2>2. LocalsOK(worker[w])'
    BY <1>1, <1>3, <1>4, <2>1, OutboxAssumption DEF LocalsOK, q, Busy, Worker
  <2>3. ASSUME NEW v \in Workers, v # w PROVE LocalsOK(worker[v])'
    <3>1. worker'[v] = worker[v] /\ LocalsOK(worker[v]) /\ worker[v] \in Worker
      BY <1>1, <1>3, <2>3 DEF IndInv, TypeOK
    <3>2. worker[v].phase = "locking" =>
            \A i \in worker[v].jobs : Claimable(i, worker[v].claimedAt)'
      BY <1>2, <1>3, <3>1, <2>3 DEF LocalsOK, Claimable, Locked, Worker
    <3> QED
      BY <1>1, <2>1, <3>1, <3>2 DEF LocalsOK, Busy, Worker
  <2> QED
    BY <2>2, <2>3
<1>12. \A u, v \in Workers : u # v => Apart(u, v)'
  <2>1. \A v \in Workers : /\ worker'[v].token \in {worker[v].token, NoToken}
                           /\ worker'[v].phase = "locking" =>
                                worker[v].phase = "locking" /\ worker'[v].jobs = worker[v].jobs
    BY <1>3, <1>4 DEF q
  <2> QED
    BY <2>1 DEF IndInv, Apart
<1> QED
  BY <1>5, <1>6, <1>7, <1>8, <1>9, <1>10, <1>11, <1>12 DEF IndInv

\* A mark that changed nothing: the worker has lost its lease, or the statement failed.
LEMMA NoSettleStep ==
  ASSUME IndInv, NEW w \in Workers, worker[w].phase \in Busy,
         UNCHANGED <<row, accepted, sends, now>>, faults' \in Nat,
         \/ worker' = [worker EXCEPT ![w] = NextJob(w)] /\ ~Holds(w, worker[w].job)
         \/ worker' = [worker EXCEPT ![w] = Catch(w)]
         \/ worker' = [worker EXCEPT ![w] = IdleWorker]
  PROVE  IndInv'
<1>1. /\ TypeOK /\ RowsOK /\ LocalsOK(worker[w]) /\ LeaseIsOwned /\ worker[w] \in Worker
      /\ worker[w].token # NoToken /\ now \in Nat /\ now <= now
  BY DEF IndInv, TypeOK, LocalsOK, Busy
<1>2. CASE worker' = [worker EXCEPT ![w] = NextJob(w)] /\ ~Holds(w, worker[w].job)
  <2> DEFINE q == worker'[w]
  <2>1. /\ q = NextJob(w) /\ q \in Worker
        /\ worker' = [worker EXCEPT ![w] = q]
    BY <1>1, <1>2, WorkerForms DEF TypeOK
  <2> HIDE DEF q
  <2>2. /\ q.phase = "looping" /\ q.job = NoId /\ q.token = worker[w].token
        /\ q.jobs = worker[w].jobs /\ q.claimedAt = worker[w].claimedAt
        /\ q.now = worker[w].now
    BY <1>1, <2>1 DEF NextJob, Worker
  <2>3. LocalsOK(worker[w])'
    BY <1>1, <2>1, <2>2, OutboxAssumption DEF q, LocalsOK, Busy
  <2>4. q.token # NoToken =>
          \A i \in Ids : row[i].leaseToken = q.token => i \in q.jobs \union {q.job}
    <3> SUFFICES ASSUME NEW i \in Ids, row[i].leaseToken = worker[w].token
                 PROVE  i \in worker[w].jobs
      BY <2>2
    <3>1. row[i].status = "PROCESSING"
      BY <1>1 DEF RowsOK
    <3>2. i # worker[w].job
      BY <1>2, <3>1 DEF Holds
    <3> QED
      BY <1>1, <3>2 DEF LeaseIsOwned
  <2>5. q.phase # "locking"
    BY <2>2
  <2> QED
    BY <1>1, <2>1, <2>2, <2>3, <2>4, <2>5, WorkerStep DEF q, TypeOK
<1>3. CASE worker' = [worker EXCEPT ![w] = Catch(w)]
  <2>1. worker' = [worker EXCEPT ![w] = [worker[w] EXCEPT !.phase = "failing",
                     !.now = now, !.code = "provider-error"]]
    BY <1>3 DEF Catch
  <2> QED
    BY <1>1, <2>1, JobStep DEF TypeOK, Busy, ErrorCodes
<1>4. CASE worker' = [worker EXCEPT ![w] = IdleWorker]
  BY <1>4, IdleInv
<1> QED
  BY <1>2, <1>3, <1>4

\* An Update either settles the row of the job, held by the worker, or changes no row.
LEMMA UpdateCases ==
  ASSUME IndInv, NEW w \in Workers, NEW o \in Outcomes, NEW s, Update(w, o, s),
         worker[w].phase \in Busy
  PROVE  /\ worker[w].job \in Ids /\ row[worker[w].job] \in Row /\ worker[w] \in Worker
         /\ UNCHANGED <<accepted, sends, now>> /\ faults' \in Nat
         /\ \/ /\ Holds(w, worker[w].job) /\ ~Locked(worker[w].job)
               /\ row' = [row EXCEPT ![worker[w].job] = s]
            \/ /\ o = "ok" => ~Holds(w, worker[w].job)
               /\ row' = row
BY DEF Update, IndInv, TypeOK, LocalsOK, Outcomes

\* Marking a message delivered preserves the invariant.
LEMMA MarkDeliveredInv ==
  ASSUME IndInv, NEW w \in Workers, NEW o \in Outcomes, MarkDelivered(w, o)
  PROVE  IndInv'
<1> DEFINE j == worker[w].job
           s == AsDelivered(row[j], worker[w].now)
<1>1. Update(w, o, s) /\ worker[w].phase = "confirming" /\ worker[w].phase \in Busy
  BY DEF MarkDelivered, Busy
<1>2. /\ o = "ok" => worker' = [worker EXCEPT ![w] = NextJob(w)]
      /\ o # "ok" => worker' = [worker EXCEPT ![w] = Catch(w)]
  BY DEF MarkDelivered
<1>3. /\ j \in Ids /\ row[j] \in Row /\ worker[w] \in Worker
      /\ UNCHANGED <<accepted, sends, now>> /\ faults' \in Nat
      /\ \/ Holds(w, j) /\ ~Locked(j) /\ row' = [row EXCEPT ![j] = s]
         \/ (o = "ok" => ~Holds(w, j)) /\ row' = row
  BY <1>1, UpdateCases
<1>4. worker[w].now \in Nat /\ "none" \in ErrorCodes
  BY <1>3 DEF Worker, ErrorCodes
<1>5. /\ s \in Row /\ s.dedupeKey = row[j].dedupeKey /\ s.expiresAt = row[j].expiresAt
      /\ s.leaseToken = NoToken /\ s.status = "DELIVERED"
      /\ s.deliveredAt = worker[w].now /\ s.attemptCount = row[j].attemptCount
  <2>1. s \in Row
    BY <1>3, <1>4, SettledRowType
  <2>2. PICK r \in Row, n \in Nat, c \in ErrorCodes :
          r = row[j] /\ n = worker[w].now /\ c = "none"
    BY <1>3, <1>4
  <2>3. s = AsDelivered(r, n)
    BY <2>2
  <2> HIDE DEF s, j
  <2> QED
    BY <2>1, <2>2, <2>3, SettledRowFields DEF Released
<1>6. /\ row[j].dedupeKey \in accepted /\ worker[w].now < row[j].expiresAt
      /\ row[j].attemptCount <= MaxAttempts
  BY <1>1, <1>3 DEF IndInv, LocalsOK, RetryBudget
<1> HIDE DEF s, j
<1>7. CASE Holds(w, j) /\ ~Locked(j) /\ row' = [row EXCEPT ![j] = s]
  BY <1>1, <1>2, <1>3, <1>5, <1>6, <1>7, SettleStep DEF j
<1>8. CASE (o = "ok" => ~Holds(w, j)) /\ row' = row
  BY <1>1, <1>2, <1>3, <1>8, NoSettleStep DEF j
<1> QED
  BY <1>3, <1>7, <1>8

\* Marking a message dead preserves the invariant.
LEMMA MarkDeadInv ==
  ASSUME IndInv, NEW w \in Workers, NEW o \in Outcomes, MarkDead(w, o)
  PROVE  IndInv'
<1> DEFINE j == worker[w].job
           s == AsDead(row[j], worker[w].code)
<1>1. Update(w, o, s) /\ worker[w].phase = "expiring" /\ worker[w].phase \in Busy
  BY DEF MarkDead, Busy
<1>2. /\ o = "ok" => worker' = [worker EXCEPT ![w] = NextJob(w)]
      /\ o # "ok" => worker' = [worker EXCEPT ![w] = Catch(w)]
  BY DEF MarkDead
<1>3. /\ j \in Ids /\ row[j] \in Row /\ worker[w] \in Worker
      /\ UNCHANGED <<accepted, sends, now>> /\ faults' \in Nat
      /\ \/ Holds(w, j) /\ ~Locked(j) /\ row' = [row EXCEPT ![j] = s]
         \/ (o = "ok" => ~Holds(w, j)) /\ row' = row
  BY <1>1, UpdateCases
<1>4. worker[w].code \in ErrorCodes /\ worker[w].now \in Nat
  BY <1>3 DEF Worker
<1>5. /\ s \in Row /\ s.dedupeKey = row[j].dedupeKey /\ s.expiresAt = row[j].expiresAt
      /\ s.leaseToken = NoToken /\ s.status = "DEAD"
      /\ s.errorCode = worker[w].code /\ s.attemptCount = row[j].attemptCount + 1
  <2>1. s \in Row
    BY <1>3, <1>4, SettledRowType
  <2>2. PICK r \in Row, n \in Nat, c \in ErrorCodes :
          r = row[j] /\ n = worker[w].now /\ c = worker[w].code
    BY <1>3, <1>4
  <2>3. s = AsDead(r, c)
    BY <2>2
  <2> HIDE DEF s, j
  <2> QED
    BY <2>1, <2>2, <2>3, SettledRowFields DEF Released
<1>6. worker[w].code = "delivery-expired" /\ row[j].expiresAt <= now
  BY <1>1, <1>3 DEF IndInv, LocalsOK
<1>7. CASE Holds(w, j) /\ ~Locked(j) /\ row' = [row EXCEPT ![j] = s]
  <2>1. s.attemptCount <= MaxAttempts
    BY <1>3, <1>5, <1>7, OutboxAssumption DEF IndInv, RetryBudget, Holds, Row
  <2> HIDE DEF s, j
  <2> QED
    BY <1>1, <1>2, <1>3, <1>5, <1>6, <1>7, <2>1, SettleStep DEF j
<1>8. CASE (o = "ok" => ~Holds(w, j)) /\ row' = row
  BY <1>1, <1>2, <1>3, <1>8, NoSettleStep
<1> QED
  BY <1>3, <1>7, <1>8

\* Marking a message failed preserves the invariant.
LEMMA MarkFailedInv ==
  ASSUME IndInv, NEW w \in Workers, NEW o \in Outcomes, MarkFailed(w, o)
  PROVE  IndInv'
<1> DEFINE j == worker[w].job
           s == AsFailed(row[j], worker[w].code, worker[w].now)
<1>1. Update(w, o, s) /\ worker[w].phase = "failing" /\ worker[w].phase \in Busy
  BY DEF MarkFailed, Busy
<1>2. /\ o = "ok" => worker' = [worker EXCEPT ![w] = NextJob(w)]
      /\ o # "ok" => \/ worker' = [worker EXCEPT ![w] = Catch(w)]
                     \/ worker' = [worker EXCEPT ![w] = IdleWorker]
  BY DEF MarkFailed
<1>3. /\ j \in Ids /\ row[j] \in Row /\ worker[w] \in Worker
      /\ UNCHANGED <<accepted, sends, now>> /\ faults' \in Nat
      /\ \/ Holds(w, j) /\ ~Locked(j) /\ row' = [row EXCEPT ![j] = s]
         \/ (o = "ok" => ~Holds(w, j)) /\ row' = row
  BY <1>1, UpdateCases
<1>4. worker[w].code \in ErrorCodes /\ worker[w].now \in Nat
  BY <1>3 DEF Worker
<1>5. /\ s \in Row /\ s.dedupeKey = row[j].dedupeKey /\ s.expiresAt = row[j].expiresAt
      /\ s.leaseToken = NoToken /\ s.attemptCount = row[j].attemptCount + 1
      /\ s.status = IF row[j].attemptCount + 1 >= MaxAttempts THEN "DEAD" ELSE "PENDING"
  <2>1. s \in Row
    BY <1>3, <1>4, SettledRowType
  <2>2. PICK r \in Row, n \in Nat, c \in ErrorCodes :
          r = row[j] /\ n = worker[w].now /\ c = worker[w].code
    BY <1>3, <1>4
  <2>3. s = AsFailed(r, c, n)
    BY <2>2
  <2> HIDE DEF s, j
  <2> QED
    BY <2>1, <2>2, <2>3, SettledRowFields DEF Released
<1>6. CASE Holds(w, j) /\ ~Locked(j) /\ row' = [row EXCEPT ![j] = s]
  <2>1. row[j].attemptCount < MaxAttempts /\ row[j].attemptCount \in Nat
    BY <1>3, <1>6 DEF IndInv, RetryBudget, Holds, Row
  <2>2. /\ s.attemptCount <= MaxAttempts /\ s.status \in {"PENDING", "DEAD"}
        /\ s.status = "PENDING" => s.attemptCount < MaxAttempts
        /\ s.status = "DEAD" => s.attemptCount = MaxAttempts
    BY <1>5, <2>1, OutboxAssumption
  <2> HIDE DEF s, j
  <2> QED
    BY <1>1, <1>2, <1>3, <1>5, <1>6, <2>2, SettleStep DEF j
<1>7. CASE (o = "ok" => ~Holds(w, j)) /\ row' = row
  BY <1>1, <1>2, <1>3, <1>7, NoSettleStep
<1> QED
  BY <1>3, <1>6, <1>7

\* Time passes without disturbing the invariant.
LEMMA TickInv == ASSUME IndInv, Tick PROVE IndInv'
<1>1. /\ UNCHANGED <<row, worker, accepted, sends, faults>>
      /\ now \in Nat /\ now' = now + 1 /\ TypeOK
  BY DEF Tick, IndInv, TypeOK
<1>2. now' \in Nat /\ now <= now' /\ \A n \in Nat : n <= now => n <= now'
  BY <1>1
<1>3. TypeOK'
  BY <1>1, <1>2 DEF TypeOK
<1>4. /\ RowsOK' /\ DeliveredWasAccepted' /\ UniqueDelivery' /\ LeaseIsOwned'
      /\ \A v, w \in Workers : v # w => Apart(v, w)'
  BY <1>1 DEF IndInv, RowsOK, DeliveredWasAccepted, UniqueDelivery, LeaseIsOwned, Apart
<1>5. RetryBudget'
  BY <1>1, <1>2 DEF IndInv, RetryBudget, TypeOK, Row
<1>6. \A w \in Workers : LocalsOK(worker[w])'
  BY <1>1, <1>2 DEF IndInv, LocalsOK, Claimable, TypeOK, Row, Worker, Busy
<1> QED
  BY <1>3, <1>4, <1>5, <1>6 DEF IndInv

\* Every step preserves the invariant.
LEMMA StepInv == ASSUME IndInv, [Next]_vars PROVE IndInv'
<1>1. ASSUME NEW i \in Ids, NEW d \in Deliveries, NEW ttl \in Ttls, Enqueue(i, d, ttl)
      PROVE  IndInv'
  BY <1>1, EnqueueInv
<1>2. ASSUME NEW w \in Workers, Step(w) PROVE IndInv'
  <2>1. CASE \E t \in Tokens : Start(w, t)
    BY <2>1, StartInv
  <2>2. CASE SelectBatch(w)
    BY <2>2, SelectBatchInv
  <2>3. CASE ClaimBatch(w)
    BY <2>3, ClaimBatchInv
  <2>4. CASE Return(w)
    BY <2>4, IdleInv DEF Return, IndInv, TypeOK
  <2>5. CASE \E i \in Ids, b \in Decrypts : BeginJob(w, i, b)
    BY <2>5, BeginJobInv
  <2>6. CASE \E o \in {"found", "null", "throws"} : Resolve(w, o)
    BY <2>6, ResolveInv
  <2>7. CASE \E o \in {"accepted", "refused", "no-answer"} : Send(w, o)
    BY <2>7, SendInv
  <2>8. CASE \E o \in Outcomes : MarkDelivered(w, o) \/ MarkDead(w, o) \/ MarkFailed(w, o)
    BY <2>8, MarkDeliveredInv, MarkDeadInv, MarkFailedInv
  <2> QED
    BY <1>2, <2>1, <2>2, <2>3, <2>4, <2>5, <2>6, <2>7, <2>8 DEF Step
<1>3. ASSUME NEW w \in Workers, Crash(w) PROVE IndInv'
  <2>1. faults' \in Nat
    BY <1>3 DEF Crash, IndInv, TypeOK
  <2> QED
    BY <1>3, <2>1, IdleInv DEF Crash
<1>4. CASE Tick
  BY <1>4, TickInv
<1>5. CASE UNCHANGED vars
  BY <1>5 DEF vars, IndInv, TypeOK, RowsOK, LocalsOK, Apart, RetryBudget,
              DeliveredWasAccepted, UniqueDelivery, LeaseIsOwned, Claimable, Busy
<1> QED
  BY <1>1, <1>2, <1>3, <1>4, <1>5 DEF Next

-----------------------------------------------------------------------------
(* Theorems.                                                                *)

\* IndInv holds in every reachable state, for any number of messages, workers,
\* lease tokens, crashes and failed statements and any speed of the clock.
THEOREM Invariance == Spec => []IndInv
<1>1. Init => IndInv
  BY InitInv
<1>2. IndInv /\ [Next]_vars => IndInv'
  BY StepInv
<1> QED
  BY <1>1, <1>2, PTL DEF Spec

\* Every variable keeps its type: the table's columns and a processOnce's locals.
THEOREM TypeCorrect == Spec => []TypeOK
<1>1. IndInv => TypeOK
  BY DEF IndInv
<1> QED
  BY <1>1, Invariance, PTL

\* markFailed and markDead keep the retry budget, whoever reclaims the message.
THEOREM RetryBudgetHolds == Spec => []RetryBudget
<1>1. IndInv => RetryBudget
  BY DEF IndInv
<1> QED
  BY <1>1, Invariance, PTL

\* At-least-once: markDelivered is reached only after the provider accepted the
\* message, within the life of its secret.
THEOREM AtLeastOnce == Spec => []DeliveredWasAccepted
<1>1. IndInv => DeliveredWasAccepted
  BY DEF IndInv
<1> QED
  BY <1>1, Invariance, PTL

\* enqueue admits one message per delivery.
THEOREM OneMessagePerDelivery == Spec => []UniqueDelivery
<1>1. IndInv => UniqueDelivery
  BY DEF IndInv
<1> QED
  BY <1>1, Invariance, PTL

\* processOnce never forgets a message it leased.
THEOREM NoForgottenLease == Spec => []LeaseIsOwned
<1>1. IndInv => LeaseIsOwned
  BY DEF IndInv
<1> QED
  BY <1>1, Invariance, PTL

\* A lease ends only by the hand of its holder or after it ran out.
LEMMA FencedStep ==
  ASSUME IndInv, Next, NEW i \in Ids PROVE LeaseEndsInOrder(i)
<1> SUFFICES ASSUME row[i].status = "PROCESSING", row'[i] # row[i]
             PROVE  LeaseEndsInOrder(i)
  BY DEF LeaseEndsInOrder
<1>1. TypeOK
  BY DEF IndInv
<1>2. ASSUME NEW j \in Ids, NEW d \in Deliveries, NEW ttl \in Ttls, Enqueue(j, d, ttl)
      PROVE  FALSE
  BY <1>1, <1>2 DEF Enqueue, TypeOK
<1>3. ASSUME NEW w \in Workers, ClaimBatch(w) PROVE LeaseEndsInOrder(i)
  <2>1. /\ i \in worker[w].jobs /\ row' = [k \in Ids |-> IF k \in worker[w].jobs
                                           THEN Lease(row[k], w) ELSE row[k]]
        /\ worker[w].phase = "locking" /\ LocalsOK(worker[w]) /\ worker[w] \in Worker
    BY <1>1, <1>3 DEF ClaimBatch, IndInv, TypeOK
  <2>2. /\ row[i].leaseExpiresAt <= worker[w].claimedAt /\ worker[w].claimedAt <= now
        /\ row[i].leaseToken # worker[w].token
    BY <2>1 DEF LocalsOK, Claimable
  <2>3. row[i].leaseExpiresAt <= now
    BY <1>1, <2>1, <2>2 DEF TypeOK, Row, Worker
  <2>4. row'[i].leaseToken = worker[w].token /\ row'[i].status = "PROCESSING"
    <3>1. row'[i] = Lease(row[i], w) /\ row[i] \in Row
      BY <1>1, <2>1 DEF TypeOK
    <3> QED
      BY <3>1 DEF Lease, Row
  <2> QED
    BY <2>2, <2>3, <2>4 DEF LeaseEndsInOrder
<1>4. ASSUME NEW w \in Workers, NEW o \in Outcomes, NEW s, Update(w, o, s),
             worker[w].phase \in Busy
      PROVE  LeaseEndsInOrder(i)
  <2>1. Holds(w, worker[w].job) /\ row' = [row EXCEPT ![worker[w].job] = s]
    BY <1>4, UpdateCases
  <2>2. i = worker[w].job
    BY <1>1, <2>1 DEF TypeOK
  <2> QED
    BY <2>1, <2>2 DEF Holds, LeaseEndsInOrder
<1>5. ASSUME NEW w \in Workers, Step(w) PROVE LeaseEndsInOrder(i)
  <2>1. CASE \E o \in Outcomes : MarkDelivered(w, o) \/ MarkDead(w, o) \/ MarkFailed(w, o)
    BY <1>4, <2>1 DEF MarkDelivered, MarkDead, MarkFailed, Busy
  <2>2. CASE ClaimBatch(w)
    BY <1>3, <2>2
  <2> QED
    BY <1>5, <2>1, <2>2 DEF Step, Start, SelectBatch, Return, BeginJob, Resolve, Send
<1> QED
  BY <1>2, <1>5 DEF Next, Crash, Tick

\* Fencing holds of every step.
THEOREM Fencing == Spec => FencedRelease
<1>1. IndInv /\ [Next]_vars => [\A i \in Ids : LeaseEndsInOrder(i)]_vars
  BY FencedStep
<1> QED
  BY <1>1, Invariance, PTL DEF Spec, FencedRelease

-----------------------------------------------------------------------------
(* Refinement.                                                              *)

Stage == [i \in Ids |-> StageOf(row[i])]
Key == [i \in Ids |-> row[i].dedupeKey]

\* A step that moves no row across stages and changes no key is a stutter.
LEMMA QuietRows ==
  ASSUME TypeOK, TypeOK',
         \A i \in Ids : /\ row'[i].dedupeKey = row[i].dedupeKey
                        /\ StageOf(row'[i]) = StageOf(row[i])
  PROVE  Stage' = Stage /\ Key' = Key
BY DEF Stage, Key

\* A mark confirms the delivery, gives it up, or leaves its stage alone.
LEMMA MarkRefines ==
  ASSUME IndInv, IndInv', NEW w \in Workers, NEW o \in Outcomes,
         MarkDelivered(w, o) \/ MarkDead(w, o) \/ MarkFailed(w, o)
  PROVE  [Contract!Next]_Contract!vars
<1> DEFINE j == worker[w].job
<1>1. /\ TypeOK /\ TypeOK' /\ worker[w].phase \in Busy /\ LocalsOK(worker[w])
      /\ j \in Ids /\ row[j] \in Row /\ worker[w] \in Worker
  BY DEF IndInv, MarkDelivered, MarkDead, MarkFailed, Busy, LocalsOK, TypeOK
<1>2. PICK s : Update(w, o, s) /\
         \/ worker[w].phase = "confirming" /\ s = AsDelivered(row[j], worker[w].now)
         \/ s = AsDead(row[j], worker[w].code)
         \/ s = AsFailed(row[j], worker[w].code, worker[w].now)
  BY DEF MarkDelivered, MarkDead, MarkFailed
<1>3. /\ accepted' = accepted
      /\ \/ Holds(w, j) /\ row' = [row EXCEPT ![j] = s]
         \/ row' = row
  BY <1>1, <1>2, UpdateCases
<1>4. /\ s.dedupeKey = row[j].dedupeKey
      /\ \/ /\ s.status = "DELIVERED"
            /\ row[j].dedupeKey \in accepted
         \/ s.status \in {"DEAD", "PENDING"}
  <2>1. PICK r \in Row, n \in Nat, c \in ErrorCodes :
          r = row[j] /\ n = worker[w].now /\ c = worker[w].code
    BY <1>1 DEF Worker
  <2>2. \/ worker[w].phase = "confirming" /\ s = AsDelivered(r, n)
        \/ s = AsDead(r, c)
        \/ s = AsFailed(r, c, n)
    BY <1>2, <2>1
  <2>3. worker[w].phase = "confirming" => row[j].dedupeKey \in accepted
    BY <1>1 DEF LocalsOK
  <2> HIDE DEF j
  <2> QED
    BY <2>1, <2>2, <2>3, SettledRowFields DEF Released
<1>5. CASE row' = row
  BY <1>1, <1>3, <1>5 DEF Contract!vars
<1>6. CASE Holds(w, j) /\ row' = [row EXCEPT ![j] = s]
  <2>1. /\ row'[j] = s /\ \A i \in Ids \ {j} : row'[i] = row[i]
        /\ row[j].status = "PROCESSING"
    BY <1>1, <1>6 DEF TypeOK, Holds
  <2>2. Key' = Key /\ StageOf(row[j]) = "live"
    BY <1>1, <1>4, <2>1 DEF Key, StageOf
  <2>3. Stage' = [Stage EXCEPT ![j] = StageOf(s)]
    BY <1>1, <2>1 DEF Stage
  <2>4. CASE s.status = "DELIVERED"
    <3>1. Contract!Confirm(j)
      BY <1>1, <1>3, <1>4, <2>2, <2>3, <2>4 DEF Contract!Confirm, Stage, Key, StageOf
    <3> QED
      BY <1>1, <3>1 DEF Contract!Next
  <2>5. CASE s.status = "DEAD"
    <3>1. Contract!GiveUp(j)
      BY <1>1, <1>3, <2>2, <2>3, <2>5 DEF Contract!GiveUp, Stage, Key, StageOf
    <3> QED
      BY <1>1, <3>1 DEF Contract!Next
  <2>6. CASE s.status = "PENDING"
    BY <1>3, <2>1, <2>2, <2>3, <2>6 DEF Contract!vars, Stage, Key, StageOf
  <2> QED
    BY <1>4, <2>4, <2>5, <2>6
<1> QED
  BY <1>3, <1>5, <1>6

\* Every step is a step of the contract or a stutter.
LEMMA StepRefines ==
  ASSUME IndInv, IndInv', [Next]_vars PROVE [Contract!Next]_Contract!vars
<1>1. TypeOK /\ TypeOK'
  BY DEF IndInv
<1>2. ASSUME NEW i \in Ids, NEW d \in Deliveries, NEW ttl \in Ttls, Enqueue(i, d, ttl)
      PROVE  Contract!Next
  <2>1. /\ \A j \in Ids \ {i} : row'[j] = row[j]
        /\ row'[i].status = "PENDING" /\ row'[i].dedupeKey = d
        /\ row[i].status = "ABSENT" /\ NotEnqueued(d) /\ accepted' = accepted
    BY <1>1, <1>2 DEF Enqueue, NoRow, TypeOK
  <2>2. Stage' = [Stage EXCEPT ![i] = "live"]
    <3>1. StageOf(row'[i]) = "live"
      BY <2>1 DEF StageOf
    <3> QED
      BY <2>1, <3>1 DEF Stage
  <2>3. Key' = [Key EXCEPT ![i] = d]
    BY <2>1 DEF Key
  <2>4. Stage[i] = "none" /\ \A j \in Ids : Key[j] # d
    BY <2>1 DEF Stage, Key, StageOf, NotEnqueued
  <2>5. Contract!Request(i, d)
    BY <2>1, <2>2, <2>3, <2>4 DEF Contract!Request, Stage, Key
  <2> QED
    BY <2>5 DEF Contract!Next
<1>3. ASSUME NEW w \in Workers, ClaimBatch(w) PROVE UNCHANGED Contract!vars
  <2>1. /\ row' = [k \in Ids |-> IF k \in worker[w].jobs THEN Lease(row[k], w) ELSE row[k]]
        /\ worker[w].phase = "locking" /\ LocalsOK(worker[w]) /\ accepted' = accepted
    BY <1>3 DEF ClaimBatch, IndInv
  <2>2. ASSUME NEW i \in Ids
        PROVE  row'[i].dedupeKey = row[i].dedupeKey /\ StageOf(row'[i]) = StageOf(row[i])
    <3>1. CASE i \in worker[w].jobs
      <4>1. row[i].status \in {"PENDING", "PROCESSING"} /\ row[i] \in Row
        BY <1>1, <2>1, <3>1 DEF LocalsOK, Claimable, TypeOK
      <4>2. row'[i] = Lease(row[i], w)
        BY <2>1, <3>1
      <4>3. row'[i].dedupeKey = row[i].dedupeKey /\ row'[i].status = "PROCESSING"
        BY <4>1, <4>2 DEF Lease, Row
      <4> QED
        BY <4>1, <4>3 DEF StageOf
    <3> QED
      BY <2>1, <3>1
  <2> QED
    BY <1>1, <2>1, <2>2, QuietRows DEF Contract!vars, Stage, Key
<1>4. ASSUME NEW w \in Workers, NEW o \in {"accepted", "refused", "no-answer"}, Send(w, o)
      PROVE  [Contract!Next]_Contract!vars
  <2>1. /\ worker[w].job \in Ids /\ row[worker[w].job].status # "ABSENT"
        /\ row[worker[w].job] \in Row /\ row' = row
        /\ accepted' \in {accepted, accepted \union {row[worker[w].job].dedupeKey}}
    BY <1>1, <1>4 DEF Send, IndInv, LocalsOK, Busy, TypeOK
  <2>2. CASE accepted' = accepted
    BY <2>1, <2>2 DEF Contract!vars
  <2>3. CASE accepted' = accepted \union {row[worker[w].job].dedupeKey}
    <3>1. StageOf(row[worker[w].job]) # "none"
      BY <2>1 DEF StageOf, Row, Statuses
    <3>2. Contract!Accept(worker[w].job)
      BY <2>1, <2>3, <3>1 DEF Contract!Accept
    <3> QED
      BY <2>1, <3>2 DEF Contract!Next
  <2> QED
    BY <2>1, <2>2, <2>3
<1>5. ASSUME NEW w \in Workers, Step(w) PROVE [Contract!Next]_Contract!vars
  <2>1. CASE \E o \in Outcomes : MarkDelivered(w, o) \/ MarkDead(w, o) \/ MarkFailed(w, o)
    BY <2>1, MarkRefines
  <2>2. CASE ClaimBatch(w)
    BY <1>3, <2>2
  <2>3. CASE \E o \in {"accepted", "refused", "no-answer"} : Send(w, o)
    BY <1>4, <2>3
  <2>4. CASE row' = row /\ accepted' = accepted
    BY <2>4 DEF Contract!vars
  <2> QED
    BY <1>5, <2>1, <2>2, <2>3, <2>4 DEF Step, Start, SelectBatch, Return, BeginJob, Resolve
<1>6. CASE row' = row /\ accepted' = accepted
  BY <1>6 DEF Contract!vars
<1> QED
  BY <1>2, <1>5, <1>6 DEF Next, Crash, Tick, vars

\* The outbox implements the delivery contract: enqueue requests, the provider
\* accepts, markDelivered confirms, markDead and the last markFailed give up.
THEOREM OutboxImplementsContract == Spec => ImplementsContract
<1>1. Init => Contract!Init
  <2> SUFFICES ASSUME Init PROVE Contract!Init
    OBVIOUS
  <2>1. \A i \in Ids : row[i].status = "ABSENT" /\ row[i].dedupeKey = NoDelivery
    BY DEF Init, NoRow
  <2> QED
    BY <2>1 DEF Init, Contract!Init, StageOf
<1>2. IndInv /\ IndInv' /\ [Next]_vars => [Contract!Next]_Contract!vars
  BY StepRefines
<1> QED
  BY <1>1, <1>2, Invariance, PTL DEF Spec, ImplementsContract, Contract!Spec

-----------------------------------------------------------------------------
(* Batches that outlive their leases.                                      *)

\* What is left of a worker after each way of leaving a job.
LEMMA LeavingForms ==
  ASSUME TypeOK, NEW w \in Workers
  PROVE  /\ NextJob(w).phase = "looping" /\ NextJob(w).token = worker[w].token
         /\ NextJob(w).claimedAt = worker[w].claimedAt /\ NextJob(w).jobs = worker[w].jobs
         /\ NextJob(w).job = NoId /\ NextJob(w).now = worker[w].now
         /\ Catch(w).phase = "failing" /\ Catch(w).token = worker[w].token
         /\ Catch(w).claimedAt = worker[w].claimedAt /\ Catch(w).jobs = worker[w].jobs
         /\ Catch(w).job = worker[w].job /\ Catch(w).now = now
         /\ IdleWorker.phase = "idle" /\ IdleWorker.token = NoToken /\ IdleWorker.jobs = {}
         /\ IdleWorker.job = NoId /\ IdleWorker.claimedAt = 0 /\ IdleWorker.now = 0
BY DEF TypeOK, Worker, NextJob, Catch, IdleWorker

\* What the three marks have in common: the row is settled, and counted unless delivered, or
\* unchanged, which is a fault if the worker held it.
LEMMA MarkEffect ==
  ASSUME IndInv, NEW w \in Workers, NEW o \in Outcomes,
         MarkDelivered(w, o) \/ MarkDead(w, o) \/ MarkFailed(w, o)
  PROVE  LET j == worker[w].job IN
         /\ j \in Ids /\ worker[w].phase \in {"confirming", "expiring", "failing"}
         /\ UNCHANGED <<accepted, sends, now>> /\ faults' \in Nat /\ faults' >= faults
         /\ \E q \in {NextJob(w), Catch(w), IdleWorker} : worker' = [worker EXCEPT ![w] = q]
         /\ \/ /\ Holds(w, j)
               /\ \E s \in Row :
                    /\ row' = [row EXCEPT ![j] = s] /\ s.leaseToken = NoToken
                    /\ s.status # "PROCESSING"
                    /\ s.attemptCount = row[j].attemptCount
                                          + IF s.status = "DELIVERED" THEN 0 ELSE 1
                    /\ s.status = "PENDING" => worker[w].now <= s.availableAt
            \/ row' = row /\ (Holds(w, j) => faults' = faults + 1)
<1> DEFINE j == worker[w].job
           s == CASE worker[w].phase = "confirming" -> AsDelivered(row[j], worker[w].now)
                  [] worker[w].phase = "expiring" -> AsDead(row[j], worker[w].code)
                  [] worker[w].phase = "failing" -> AsFailed(row[j], worker[w].code, worker[w].now)
<1>1. worker[w].phase \in {"confirming", "expiring", "failing"} /\ worker[w].phase \in Busy
  BY DEF MarkDelivered, MarkDead, MarkFailed, Busy
<1>2. Update(w, o, s)
  BY DEF MarkDelivered, MarkDead, MarkFailed
<1> HIDE DEF s
<1>3. /\ j \in Ids /\ row[j] \in Row /\ worker[w] \in Worker
      /\ UNCHANGED <<accepted, sends, now>> /\ faults' \in Nat
      /\ \/ Holds(w, j) /\ row' = [row EXCEPT ![j] = s]
         \/ (o = "ok" => ~Holds(w, j)) /\ row' = row
  BY <1>1, <1>2, UpdateCases
<1>4. faults \in Nat /\ faults' = IF o = "ok" THEN faults ELSE faults + 1
  BY <1>2 DEF Update, IndInv, TypeOK
<1>5. \E q \in {NextJob(w), Catch(w), IdleWorker} : worker' = [worker EXCEPT ![w] = q]
  BY DEF MarkDelivered, MarkDead, MarkFailed
<1>6. /\ s \in Row /\ s.leaseToken = NoToken /\ s.status # "PROCESSING"
      /\ s.attemptCount = row[j].attemptCount + IF s.status = "DELIVERED" THEN 0 ELSE 1
      /\ s.status = "PENDING" => worker[w].now <= s.availableAt
  <2>1. PICK r \in Row, n \in Nat, c \in ErrorCodes :
          r = row[j] /\ n = worker[w].now /\ c = worker[w].code
    BY <1>3 DEF Worker
  <2>2. \/ s = AsDelivered(r, n)
        \/ s = AsDead(r, c)
        \/ s = AsFailed(r, c, n)
    BY <1>1, <2>1 DEF s
  <2>3. r.attemptCount \in Nat
    BY DEF Row
  <2>4. s \in Row
    BY <2>2, SettledRowType
  <2>5. CASE s = AsDelivered(r, n)
    BY <2>1, <2>3, <2>4, <2>5, SettledRowFields DEF Released
  <2>6. CASE s = AsDead(r, c)
    BY <2>1, <2>3, <2>4, <2>6, SettledRowFields DEF Released
  <2>7. CASE s = AsFailed(r, c, n)
    BY <2>1, <2>3, <2>4, <2>7, SettledRowFields DEF Released
  <2> QED
    BY <2>2, <2>5, <2>6, <2>7
<1> HIDE DEF j
<1>7. CASE Holds(w, j) /\ row' = [row EXCEPT ![j] = s]
  <2>1. \E r \in Row :
          /\ row' = [row EXCEPT ![j] = r] /\ r.leaseToken = NoToken
          /\ r.status # "PROCESSING"
          /\ r.attemptCount = row[j].attemptCount
                                + IF r.status = "DELIVERED" THEN 0 ELSE 1
          /\ r.status = "PENDING" => worker[w].now <= r.availableAt
    BY <1>6, <1>7
  <2>2. faults' >= faults
    BY <1>4
  <2> QED
    BY <1>1, <1>3, <1>5, <1>7, <2>1, <2>2, Zenon DEF j
<1>8. CASE (o = "ok" => ~Holds(w, j)) /\ row' = row
  <2>1. faults' >= faults /\ (Holds(w, j) => faults' = faults + 1)
    BY <1>4, <1>8
  <2> QED
    BY <1>1, <1>3, <1>5, <1>8, <2>1, Zenon DEF j
<1> QED
  BY <1>3, <1>7, <1>8

\* A worker that does nothing still knows its leases, if its rows are left alone or are
\* overtaken and it gets hold of no other.
LEMMA LeaseStays ==
  ASSUME IndInv, LeaseInv, NEW v \in Workers, worker'[v] = worker[v],
         now' \in Nat, now <= now',
         \A i \in Ids :
           /\ row'[i] = row[i] \/ ~(row'[i].status = "PROCESSING"
                                      /\ row'[i].leaseToken = worker[v].token)
           /\ i \in InHand(worker[v]) => row'[i] = row[i] \/ Overtaken(worker[v], row'[i])
  PROVE  LeaseKnown(v)'
<1>1. /\ LeaseKnown(v) /\ worker[v] \in Worker /\ now \in Nat
      /\ LeaseEnd(worker[v]) \in Nat /\ InHand(worker[v]) \subseteq Ids
  BY OutboxAssumption DEF LeaseInv, IndInv, TypeOK, Worker, LeaseEnd, InHand, LocalsOK, Busy
<1>2. ASSUME NEW i \in InHand(worker[v])
      PROVE  Holds(v, i)' \/ Overtaken(worker[v], row[i])'
  <2>1. i \in Ids /\ (Holds(v, i) \/ Overtaken(worker[v], row[i]))
    BY <1>1, <1>2 DEF LeaseKnown
  <2> QED
    BY <1>1, <2>1 DEF Holds, Overtaken, LeaseEnd
<1>3. ASSUME NEW i \in Ids, Holds(v, i)'
      PROVE  row'[i].leaseExpiresAt = LeaseEnd(worker[v])
  BY <1>1, <1>3 DEF Holds, LeaseKnown
<1> QED
  BY <1>1, <1>2, <1>3 DEF LeaseKnown, InHand, LeaseEnd

\* A step of worker w that claims nothing and goes on with q.
LEMMA LeaseSelf ==
  ASSUME IndInv, LeaseInv, NEW w \in Workers, NEW q \in Worker,
         worker' = [worker EXCEPT ![w] = q], now' = now,
         q.claimedAt <= q.now, q.job \notin q.jobs,
         InHand(q) \subseteq InHand(worker[w]),
         \/ q.token = worker[w].token /\ q.claimedAt = worker[w].claimedAt
         \/ InHand(q) = {} /\ \A i \in Ids : row[i].status = "PROCESSING" =>
                                              row[i].leaseToken # q.token,
         \A i \in Ids :
           /\ row'[i] = row[i] \/ row'[i].status # "PROCESSING"
           /\ i \in InHand(q) => row'[i] = row[i]
           /\ \A v \in Workers \ {w} :
                i \in InHand(worker[v]) => row'[i] = row[i] \/ Overtaken(worker[v], row'[i])
  PROVE  LeaseInv'
<1>1. /\ worker'[w] = q /\ \A v \in Workers \ {w} : worker'[v] = worker[v]
      /\ now \in Nat /\ LeaseKnown(w) /\ InHand(worker[w]) \subseteq Ids
  BY DEF LeaseInv, IndInv, TypeOK, Worker, InHand, LocalsOK, Busy
<1>2. ASSUME NEW v \in Workers \ {w} PROVE LeaseKnown(v)'
  BY <1>1, LeaseStays
<1>3. LeaseKnown(w)'
  <2>1. ASSUME NEW i \in Ids, Holds(w, i)' PROVE row'[i].leaseExpiresAt = LeaseEnd(q)
    <3>1. row'[i] = row[i] /\ row[i].status = "PROCESSING" /\ row[i].leaseToken = q.token
      BY <1>1, <2>1 DEF Holds
    <3>2. q.token = worker[w].token /\ q.claimedAt = worker[w].claimedAt
      BY <3>1
    <3> QED
      BY <1>1, <3>1, <3>2 DEF LeaseKnown, Holds, LeaseEnd
  <2>2. ASSUME NEW i \in InHand(q) PROVE (Holds(w, i) \/ Overtaken(worker[w], row[i]))'
    <3>1. /\ i \in Ids /\ row'[i] = row[i]
          /\ Holds(w, i) \/ Overtaken(worker[w], row[i])
          /\ q.token = worker[w].token /\ q.claimedAt = worker[w].claimedAt
      BY <1>1, <2>2 DEF LeaseKnown
    <3> QED
      BY <1>1, <3>1 DEF Holds, Overtaken, LeaseEnd
  <2> QED
    BY <1>1, <2>1, <2>2 DEF LeaseKnown, InHand, LeaseEnd
<1>4. ASSUME NEW u \in Workers, NEW v \in Workers, u # v,
             NEW i \in InHand(worker'[u]) \intersect InHand(worker'[v])
      PROVE  ALeaseApart(worker'[u], worker'[v])
  <2>1. /\ i \in InHand(worker[u]) \intersect InHand(worker[v])
        /\ worker'[u].claimedAt = worker[u].claimedAt
        /\ worker'[v].claimedAt = worker[v].claimedAt
    BY <1>1, <1>4
  <2>2. ALeaseApart(worker[u], worker[v])
    BY <1>4, <2>1 DEF LeaseInv
  <2> QED
    BY <2>1, <2>2 DEF ALeaseApart
<1>5. \A v \in Workers : LeaseKnown(v)'
  BY <1>2, <1>3
<1> QED
  BY <1>4, <1>5 DEF LeaseInv, InHand, ALeaseApart

LEMMA EnqueueLease ==
  ASSUME IndInv, LeaseInv, NEW i \in Ids, NEW d \in Deliveries, NEW ttl \in Ttls,
         Enqueue(i, d, ttl)
  PROVE  LeaseInv'
<1>1. /\ row[i].status = "ABSENT" /\ row'[i].status = "PENDING"
      /\ \A j \in Ids \ {i} : row'[j] = row[j]
      /\ worker' = worker /\ now' = now /\ now \in Nat
  BY DEF Enqueue, IndInv, TypeOK, NoRow
<1>2. ASSUME NEW v \in Workers PROVE LeaseKnown(v)'
  <2>1. i \notin InHand(worker[v])
    BY <1>1 DEF IndInv, LocalsOK, InHand, Busy
  <2> QED
    BY <1>1, <2>1, LeaseStays
<1> QED
  BY <1>1, <1>2 DEF LeaseInv, InHand, ALeaseApart

LEMMA StartLease ==
  ASSUME IndInv, LeaseInv, NEW w \in Workers, NEW t \in Tokens, Start(w, t)
  PROVE  LeaseInv'
<1>1. PICK q : q = [IdleWorker EXCEPT !.phase = "claiming", !.token = t, !.claimedAt = now,
                                      !.now = now]
  OBVIOUS
<1>2. /\ worker' = [worker EXCEPT ![w] = q] /\ UNCHANGED <<row, now>> /\ now \in Nat
      /\ \A i \in Ids : row[i].leaseToken # t
  BY <1>1 DEF Start, Fresh, IndInv, TypeOK
<1>3. /\ q \in Worker /\ q.token = t /\ q.jobs = {} /\ q.claimedAt = now /\ q.now = now
      /\ InHand(q) = {}
  BY <1>1, <1>2 DEF IdleWorker, Worker, Phases, ErrorCodes, InHand
<1>4. q.claimedAt <= q.now /\ q.job \notin q.jobs
  BY <1>2, <1>3
<1> QED
  BY <1>2, <1>3, <1>4, LeaseSelf

LEMMA SelectBatchLease ==
  ASSUME IndInv, LeaseInv, NEW w \in Workers, SelectBatch(w)
  PROVE  LeaseInv'
<1>1. PICK batch \in SUBSET Ids :
        worker' = [worker EXCEPT ![w].phase = "locking", ![w].jobs = batch]
  BY DEF SelectBatch
<1>2. /\ worker[w].phase = "claiming" /\ worker[w] \in Worker /\ worker \in [Workers -> Worker]
      /\ UNCHANGED <<row, now>> /\ worker[w].job \notin Ids /\ LeaseKnown(w)
  BY DEF SelectBatch, IndInv, TypeOK, LocalsOK, Busy, LeaseInv
<1>3. PICK q : q = [worker[w] EXCEPT !.phase = "locking", !.jobs = batch]
  OBVIOUS
<1>4. /\ q \in Worker /\ q.jobs = batch /\ q.job = worker[w].job /\ InHand(q) = {}
      /\ q.token = worker[w].token /\ q.claimedAt = worker[w].claimedAt
      /\ q.now = worker[w].now
  BY <1>2, <1>3 DEF Worker, Phases, InHand
<1>5. worker' = [worker EXCEPT ![w] = q]
  BY <1>1, <1>2, <1>3
<1> QED
  BY <1>2, <1>4, <1>5, LeaseSelf DEF LeaseKnown

\* A claim takes a message that another call has in hand only after the lease of that call:
\* the times in the row say so, whatever became of the message in between.
LEMMA ClaimApart ==
  ASSUME IndInv, LeaseInv, NEW w \in Workers, ClaimBatch(w), NEW v \in Workers \ {w},
         NEW i \in worker[w].jobs, i \in InHand(worker[v]) \/ Holds(v, i)
  PROVE  /\ LeaseEnd(worker[v]) <= worker[w].claimedAt
         /\ i \in InHand(worker[v]) => Overtaken(worker[v], row'[i])
<1>1. /\ LocalsOK(worker[w]) /\ worker[w].phase = "locking" /\ LeaseKnown(v)
      /\ worker[w] \in Worker /\ worker[v] \in Worker /\ i \in Ids /\ row[i] \in Row
      /\ row'[i] = Lease(row[i], w) /\ now \in Nat
  BY DEF ClaimBatch, IndInv, TypeOK, LeaseInv, Worker
<1>2. /\ row'[i].status = "PROCESSING"
      /\ row'[i].leaseExpiresAt = worker[w].claimedAt + LeaseDuration
  BY <1>1 DEF Lease, Row
<1>3. /\ worker[w].claimedAt \in Nat /\ worker[v].claimedAt \in Nat /\ LeaseDuration \in Nat
      /\ LeaseEnd(worker[v]) = worker[v].claimedAt + LeaseDuration
      /\ worker[w].claimedAt <= now
      /\ row[i].leaseExpiresAt \in Nat /\ row[i].availableAt \in Nat
  BY <1>1, OutboxAssumption DEF Worker, Row, LeaseEnd, LocalsOK
<1>4. /\ row[i].availableAt <= worker[w].claimedAt
      /\ \/ row[i].status = "PENDING"
         \/ row[i].status = "PROCESSING" /\ row[i].leaseExpiresAt <= worker[w].claimedAt
  BY <1>1 DEF LocalsOK, Claimable
<1>5. LeaseEnd(worker[v]) <= worker[w].claimedAt
  <2>1. CASE Holds(v, i)
    BY <1>1, <1>3, <1>4, <2>1 DEF LeaseKnown, Holds
  <2>2. CASE Overtaken(worker[v], row[i])
    <3>1. CASE row[i].status = "PENDING"
      BY <1>3, <1>4, <2>2, <3>1 DEF Overtaken
    <3>2. CASE row[i].status = "PROCESSING"
      <4>1. LeaseEnd(worker[v]) + LeaseDuration <= row[i].leaseExpiresAt
        BY <2>2, <3>2 DEF Overtaken
      <4> QED
        BY <1>3, <1>4, <3>2, <4>1
    <3> QED
      BY <1>4, <3>1, <3>2
  <2> QED
    BY <1>1, <2>1, <2>2 DEF LeaseKnown
<1>6. Overtaken(worker[v], row'[i])
  <2>1. PICK x \in Nat, y \in Nat, z \in Nat :
          x = LeaseEnd(worker[v]) /\ y = worker[w].claimedAt /\ z = LeaseDuration
    BY <1>3
  <2>2. x <= y /\ y <= now /\ row'[i].leaseExpiresAt = y + z
    BY <1>2, <1>3, <1>5, <2>1
  <2>3. x <= now /\ x + z <= y + z
    BY <1>1, <2>2
  <2> QED
    BY <1>2, <2>1, <2>2, <2>3 DEF Overtaken
<1> QED
  BY <1>5, <1>6

LEMMA ClaimBatchLease ==
  ASSUME IndInv, LeaseInv, NEW w \in Workers, ClaimBatch(w)
  PROVE  LeaseInv'
<1>1. /\ worker[w].phase = "locking" /\ worker[w] \in Worker /\ worker \in [Workers -> Worker]
      /\ LocalsOK(worker[w]) /\ LeaseKnown(w) /\ worker[w].token # NoToken
      /\ row \in [Ids -> Row] /\ worker[w].jobs \subseteq Ids /\ now' = now /\ now \in Nat
      /\ \A i \in Ids : row'[i] = IF i \in worker[w].jobs THEN Lease(row[i], w) ELSE row[i]
  BY DEF ClaimBatch, IndInv, TypeOK, LeaseInv, Worker, LocalsOK
<1>2. PICK q : q = [worker[w] EXCEPT !.phase = "looping"] /\ worker' = [worker EXCEPT ![w] = q]
  BY <1>1 DEF ClaimBatch
<1>3. /\ q.phase = "looping" /\ q.jobs = worker[w].jobs /\ q.job = worker[w].job
      /\ q.token = worker[w].token /\ q.claimedAt = worker[w].claimedAt
      /\ q.now = worker[w].now /\ InHand(q) = worker[w].jobs
  BY <1>1, <1>2 DEF Worker, InHand
<1>4. worker'[w] = q /\ \A v \in Workers \ {w} : worker'[v] = worker[v]
  BY <1>1, <1>2
<1>5. \A i \in worker[w].jobs :
        /\ row'[i].status = "PROCESSING" /\ row'[i].leaseToken = worker[w].token
        /\ row'[i].leaseExpiresAt = LeaseEnd(q)
  <2>1. \A i \in worker[w].jobs : row[i] \in Row /\ row'[i] = Lease(row[i], w)
    BY <1>1
  <2>2. \A r \in Row : /\ Lease(r, w).status = "PROCESSING"
                      /\ Lease(r, w).leaseToken = worker[w].token
                      /\ Lease(r, w).leaseExpiresAt = worker[w].claimedAt + LeaseDuration
    BY DEF Lease, Row
  <2>3. LeaseEnd(q) = worker[w].claimedAt + LeaseDuration
    BY <1>3 DEF LeaseEnd
  <2> QED
    BY <2>1, <2>2, <2>3
<1>6. ASSUME NEW v \in Workers \ {w} PROVE LeaseKnown(v)'
  <2>1. worker[v].token # worker[w].token
    BY <1>1 DEF IndInv, Apart
  <2>2. ASSUME NEW i \in Ids
        PROVE  /\ row'[i] = row[i] \/ ~(row'[i].status = "PROCESSING"
                                          /\ row'[i].leaseToken = worker[v].token)
               /\ i \in InHand(worker[v]) => row'[i] = row[i] \/ Overtaken(worker[v], row'[i])
    BY <1>1, <1>5, <2>1, ClaimApart
  <2> QED
    BY <1>1, <1>4, <2>2, LeaseStays
<1>7. LeaseKnown(w)'
  <2>1. \A i \in Ids \ worker[w].jobs : row'[i].leaseToken # q.token
    BY <1>1, <1>3 DEF LocalsOK
  <2>2. \A i \in Ids : row'[i].leaseToken = q.token => row'[i].leaseExpiresAt = LeaseEnd(q)
    BY <1>3, <1>5, <2>1
  <2>3. \A i \in InHand(q) : row'[i].status = "PROCESSING" /\ row'[i].leaseToken = q.token
    BY <1>3, <1>5
  <2> QED
    BY <1>1, <1>3, <1>4, <2>2, <2>3 DEF LeaseKnown, Holds, InHand, LeaseEnd
<1>8. ASSUME NEW v \in Workers \ {w}, NEW i \in InHand(worker[v]), i \in InHand(q)
      PROVE  ALeaseApart(worker[v], q) /\ ALeaseApart(q, worker[v])
  BY <1>3, <1>8, ClaimApart DEF ALeaseApart, LeaseEnd
<1>9. ASSUME NEW u \in Workers, NEW v \in Workers, u # v,
             NEW i \in InHand(worker'[u]) \intersect InHand(worker'[v])
      PROVE  ALeaseApart(worker'[u], worker'[v])
  <2>1. CASE u # w /\ v # w
    BY <1>4, <1>9, <2>1 DEF LeaseInv
  <2> QED
    BY <1>4, <1>8, <1>9, <2>1
<1>10. \A v \in Workers : LeaseKnown(v)'
  BY <1>6, <1>7
<1> QED
  BY <1>9, <1>10 DEF LeaseInv, InHand, ALeaseApart

\* Return, Crash: the worker forgets everything.
LEMMA IdleLease ==
  ASSUME IndInv, LeaseInv, NEW w \in Workers, worker' = [worker EXCEPT ![w] = IdleWorker],
         UNCHANGED <<row, now>>
  PROVE  LeaseInv'
<1>1. IdleWorker \in Worker /\ InHand(IdleWorker) = {}
  BY WorkerForms DEF IndInv, InHand, IdleWorker
<1>2. /\ IdleWorker.token = NoToken /\ IdleWorker.jobs = {}
      /\ IdleWorker.claimedAt <= IdleWorker.now
  BY DEF IdleWorker
<1>3. \A i \in Ids : row[i].status = "PROCESSING" => row[i].leaseToken # IdleWorker.token
  BY <1>2 DEF IndInv, RowsOK
<1> QED
  BY <1>1, <1>2, <1>3, LeaseSelf

LEMMA BeginJobLease ==
  ASSUME IndInv, LeaseInv, NEW w \in Workers, NEW i \in Ids, NEW b \in Decrypts,
         BeginJob(w, i, b)
  PROVE  LeaseInv'
<1>1. /\ worker[w].phase = "looping" /\ i \in worker[w].jobs /\ worker \in [Workers -> Worker]
      /\ UNCHANGED <<row, now>> /\ now \in Nat /\ worker[w] \in Worker
      /\ worker[w].claimedAt <= now
  BY DEF BeginJob, IndInv, TypeOK, LocalsOK
<1>2. PICK p \in {"failing", "expiring", "resolving"}, c \in ErrorCodes :
        worker' = [worker EXCEPT ![w] =
          [worker[w] EXCEPT !.jobs = @ \ {i}, !.job = i, !.now = now,
                            !.phase = p, !.code = c]]
  <2>1. /\ ~b => worker' = [worker EXCEPT ![w] =
             [worker[w] EXCEPT !.jobs = @ \ {i}, !.job = i, !.now = now,
                               !.phase = "failing", !.code = "provider-error"]]
        /\ b /\ row[i].expiresAt <= now => worker' = [worker EXCEPT ![w] =
             [worker[w] EXCEPT !.jobs = @ \ {i}, !.job = i, !.now = now,
                               !.phase = "expiring", !.code = "delivery-expired"]]
        /\ b /\ ~(row[i].expiresAt <= now) => worker' = [worker EXCEPT ![w] =
             [worker[w] EXCEPT !.jobs = @ \ {i}, !.job = i, !.now = now,
                               !.phase = "resolving", !.code = "none"]]
    BY <1>1 DEF BeginJob
  <2> QED
    BY <2>1 DEF ErrorCodes
<1>3. PICK q : q = [worker[w] EXCEPT !.jobs = @ \ {i}, !.job = i, !.now = now,
                                     !.phase = p, !.code = c]
  OBVIOUS
<1>4. /\ q \in Worker /\ q.phase = p /\ q.jobs = worker[w].jobs \ {i} /\ q.job = i
      /\ q.token = worker[w].token /\ q.claimedAt = worker[w].claimedAt /\ q.now = now
  BY <1>1, <1>3 DEF Worker, Phases
<1>5. InHand(q) \subseteq InHand(worker[w])
  BY <1>1, <1>4 DEF InHand
<1>6. worker' = [worker EXCEPT ![w] = q] /\ q.claimedAt <= q.now /\ q.job \notin q.jobs
  BY <1>1, <1>2, <1>3, <1>4
<1> QED
  BY <1>1, <1>4, <1>5, <1>6, LeaseSelf

\* Resolving a recipient and sending: the worker keeps its jobs, and drops the one at hand
\* if it is going to mark it failed.
LEMMA JobLease ==
  ASSUME IndInv, LeaseInv, NEW w \in Workers,
         \/ \E o \in {"found", "null", "throws"} : Resolve(w, o)
         \/ \E o \in {"accepted", "refused", "no-answer"} : Send(w, o)
  PROVE  LeaseInv'
<1>1. /\ worker[w].phase \in {"resolving", "sending"} /\ worker \in [Workers -> Worker]
      /\ UNCHANGED <<row, now>> /\ now \in Nat /\ worker[w] \in Worker
      /\ worker[w].claimedAt <= now /\ LeaseKnown(w)
  BY DEF Resolve, Send, IndInv, TypeOK, LocalsOK, LeaseInv
<1>2. \E p \in {"sending", "failing", "confirming"}, n \in {now, worker[w].now},
         c \in ErrorCodes :
        worker' = [worker EXCEPT ![w] = [worker[w] EXCEPT !.phase = p, !.now = n, !.code = c]]
  <2>1. worker[w].code \in ErrorCodes /\ worker[w].now \in Nat
    BY <1>1 DEF Worker
  <2>2. \/ worker' = [worker EXCEPT ![w] = [worker[w] EXCEPT !.phase = "sending"]]
        \/ worker' = [worker EXCEPT ![w] = [worker[w] EXCEPT !.phase = "failing",
                                                         !.code = "recipient-unavailable"]]
        \/ worker' = [worker EXCEPT ![w] = [worker[w] EXCEPT !.phase = "confirming"]]
        \/ worker' = [worker EXCEPT ![w] = [worker[w] EXCEPT !.phase = "failing", !.now = now,
                                                         !.code = "provider-error"]]
    <3>1. CASE \E o \in {"found", "null", "throws"} : Resolve(w, o)
      BY <1>1, <3>1 DEF Resolve, Catch
    <3>2. CASE \E o \in {"accepted", "refused", "no-answer"} : Send(w, o)
      BY <1>1, <3>2 DEF Send, Catch
    <3> QED
      BY <3>1, <3>2
  <2>3. \A p \in {"sending", "confirming"} :
          [worker[w] EXCEPT !.phase = p] =
            [worker[w] EXCEPT !.phase = p, !.now = worker[w].now, !.code = worker[w].code]
    BY <1>1 DEF Worker
  <2>4. [worker[w] EXCEPT !.phase = "failing", !.code = "recipient-unavailable"] =
          [worker[w] EXCEPT !.phase = "failing", !.now = worker[w].now,
                            !.code = "recipient-unavailable"]
    BY <1>1 DEF Worker
  <2>5. "recipient-unavailable" \in ErrorCodes /\ "provider-error" \in ErrorCodes
    BY DEF ErrorCodes
  <2>6. CASE \E p \in {"sending", "confirming"} :
               worker' = [worker EXCEPT ![w] = [worker[w] EXCEPT !.phase = p]]
    <3>1. PICK p \in {"sending", "confirming"} :
            worker' = [worker EXCEPT ![w] = [worker[w] EXCEPT !.phase = p]]
      BY <2>6
    <3>2. worker' = [worker EXCEPT ![w] = [worker[w] EXCEPT !.phase = p, !.now = worker[w].now,
                                                            !.code = worker[w].code]]
      BY <2>3, <3>1
    <3> QED
      BY <2>1, <3>2, Zenon
  <2> QED
    BY <2>2, <2>4, <2>5, <2>6
<1>3. PICK p \in {"sending", "failing", "confirming"}, n \in {now, worker[w].now},
           c \in ErrorCodes :
        worker' = [worker EXCEPT ![w] = [worker[w] EXCEPT !.phase = p, !.now = n, !.code = c]]
  BY <1>2
<1>4. PICK q : q = [worker[w] EXCEPT !.phase = p, !.now = n, !.code = c]
  OBVIOUS
<1>5. /\ q \in Worker /\ q.phase = p /\ q.jobs = worker[w].jobs /\ q.job = worker[w].job
      /\ q.token = worker[w].token /\ q.claimedAt = worker[w].claimedAt /\ q.now = n
  BY <1>1, <1>4 DEF Worker, Phases
<1>6. /\ InHand(q) \subseteq InHand(worker[w]) /\ q.claimedAt <= q.now
      /\ q.job \notin q.jobs
  BY <1>1, <1>5 DEF InHand, LeaseKnown
<1> QED
  BY <1>1, <1>3, <1>4, <1>5, <1>6, LeaseSelf

\* A mark changes only a row the worker holds: whoever else has the message in hand was
\* overtaken by this worker, and the next attempt is not before the lease it overtook.
LEMMA MarkLease ==
  ASSUME IndInv, LeaseInv, NEW w \in Workers, NEW o \in Outcomes,
         MarkDelivered(w, o) \/ MarkDead(w, o) \/ MarkFailed(w, o)
  PROVE  LeaseInv'
<1>1. PICK j : j = worker[w].job
  OBVIOUS
<1>2. /\ j \in Ids /\ worker[w].phase \in {"confirming", "expiring", "failing"}
      /\ now' = now /\ now \in Nat /\ worker[w] \in Worker /\ LeaseKnown(w) /\ TypeOK
      /\ row \in [Ids -> Row] /\ LocalsOK(worker[w])
  BY <1>1, MarkEffect DEF IndInv, TypeOK, LeaseInv
<1>3. PICK q \in {NextJob(w), Catch(w), IdleWorker} : worker' = [worker EXCEPT ![w] = q]
  BY MarkEffect
<1>4. /\ q \in Worker /\ q.phase \in {"looping", "failing", "idle"}
      /\ \/ /\ q.token = worker[w].token /\ q.claimedAt = worker[w].claimedAt
            /\ q.jobs = worker[w].jobs /\ q.job \in {NoId, j}
            /\ q.now \in {worker[w].now, now}
         \/ q = IdleWorker
  BY <1>1, <1>2, WorkerForms, LeavingForms
<1>5. InHand(q) \subseteq worker[w].jobs /\ worker[w].jobs \subseteq InHand(worker[w])
      /\ worker[w].jobs \subseteq Ids
  <2>1. IdleWorker.jobs = {}
    BY DEF IdleWorker
  <2> QED
    BY <1>2, <1>4, <2>1 DEF InHand, Worker
<1>6. q.claimedAt <= q.now /\ q.job \notin q.jobs
  <2>1. NoId \notin worker[w].jobs /\ worker[w].claimedAt <= worker[w].now
        /\ worker[w].claimedAt <= now /\ j \notin worker[w].jobs
    BY <1>1, <1>2, <1>5, OutboxAssumption DEF LeaseKnown, LocalsOK
  <2>2. CASE q = IdleWorker
    BY <2>2 DEF IdleWorker
  <2>3. CASE q # IdleWorker
    BY <1>4, <2>1, <2>3
  <2> QED
    BY <2>2, <2>3
<1>7. \/ q.token = worker[w].token /\ q.claimedAt = worker[w].claimedAt
      \/ InHand(q) = {} /\ \A i \in Ids : row[i].status = "PROCESSING" =>
                                           row[i].leaseToken # q.token
  <2>1. InHand(IdleWorker) = {} /\ IdleWorker.token = NoToken
    BY DEF InHand, IdleWorker
  <2> QED
    BY <1>4, <2>1 DEF IndInv, RowsOK
<1>8. \/ row' = row
      \/ \E s \in Row : /\ Holds(w, j) /\ row' = [row EXCEPT ![j] = s]
                        /\ s.status # "PROCESSING"
                        /\ s.status = "PENDING" => worker[w].now <= s.availableAt
  BY <1>1, MarkEffect
<1>9. CASE row' = row
  BY <1>2, <1>3, <1>4, <1>5, <1>6, <1>7, <1>9, LeaseSelf
<1>10. CASE row' # row
  <2>1. PICK s \in Row : /\ Holds(w, j) /\ row' = [row EXCEPT ![j] = s]
                         /\ s.status # "PROCESSING"
                         /\ s.status = "PENDING" => worker[w].now <= s.availableAt
    BY <1>8, <1>10
  <2>2. row'[j] = s /\ \A i \in Ids \ {j} : row'[i] = row[i]
    BY <1>2, <2>1
  <2>3. ASSUME NEW v \in Workers \ {w}, j \in InHand(worker[v])
        PROVE  Overtaken(worker[v], s)
    <3>1. worker[v].token # worker[w].token
      BY <1>1, <1>2 DEF IndInv, Apart, LocalsOK
    <3>2. Overtaken(worker[v], row[j]) /\ worker[v] \in Worker
      BY <2>1, <2>3, <3>1 DEF LeaseInv, LeaseKnown, Holds, IndInv, TypeOK
    <3>3. /\ LeaseEnd(worker[v]) + LeaseDuration <= row[j].leaseExpiresAt
          /\ row[j].leaseExpiresAt = worker[w].claimedAt + LeaseDuration
          /\ LeaseEnd(worker[v]) <= now
      BY <1>2, <2>1, <3>2 DEF Overtaken, Holds, LeaseKnown, LeaseEnd
    <3>4. /\ LeaseEnd(worker[v]) \in Nat /\ LeaseDuration \in Nat
          /\ worker[w].claimedAt \in Nat /\ worker[w].now \in Nat /\ s.availableAt \in Nat
          /\ worker[w].claimedAt <= worker[w].now
      BY <1>2, <3>2, OutboxAssumption DEF Worker, LeaseEnd, Row, LeaseKnown
    <3>5. s.status = "PENDING" => LeaseEnd(worker[v]) <= s.availableAt
      BY <2>1, <3>3, <3>4
    <3> QED
      BY <2>1, <3>3, <3>5 DEF Overtaken
  <2>4. ASSUME NEW i \in Ids
        PROVE  /\ row'[i] = row[i] \/ row'[i].status # "PROCESSING"
               /\ i \in InHand(q) => row'[i] = row[i]
               /\ \A v \in Workers \ {w} :
                    i \in InHand(worker[v]) =>
                      row'[i] = row[i] \/ Overtaken(worker[v], row'[i])
    <3>1. j \notin InHand(q)
      BY <1>1, <1>2, <1>5 DEF LeaseKnown
    <3> QED
      BY <2>1, <2>2, <2>3, <3>1
  <2> QED
    BY <1>2, <1>3, <1>4, <1>5, <1>6, <1>7, <2>4, LeaseSelf
<1> QED
  BY <1>9, <1>10

LEMMA TickLease ==
  ASSUME IndInv, LeaseInv, Tick
  PROVE  LeaseInv'
<1>1. row' = row /\ worker' = worker /\ now \in Nat /\ now' = now + 1
  BY DEF Tick, IndInv, TypeOK
<1>2. \A v \in Workers : LeaseKnown(v)'
  BY <1>1, LeaseStays
<1> QED
  BY <1>1, <1>2 DEF LeaseInv, InHand, ALeaseApart

LEMMA LeaseStep ==
  ASSUME IndInv, LeaseInv, [Next]_vars
  PROVE  LeaseInv'
<1>1. CASE UNCHANGED vars
  BY <1>1 DEF vars, LeaseInv, LeaseKnown, InHand, Holds, Overtaken, LeaseEnd, ALeaseApart
<1>2. ASSUME NEW w \in Workers, Step(w) PROVE LeaseInv'
  <2>1. CASE Return(w)
    BY <2>1, IdleLease DEF Return
  <2> QED
    BY <1>2, <2>1, StartLease, SelectBatchLease, ClaimBatchLease, BeginJobLease, JobLease,
       MarkLease DEF Step
<1>3. ASSUME NEW w \in Workers, Crash(w) PROVE LeaseInv'
  BY <1>3, IdleLease DEF Crash
<1> QED
  BY <1>1, <1>2, <1>3, EnqueueLease, TickLease DEF Next

\* However long a batch takes, what its call has in hand is leased to it or was overtaken.
THEOREM LeaseInvariance == Spec => []LeaseInv
<1>1. Init => LeaseInv
  BY OutboxAssumption
     DEF Init, LeaseInv, LeaseKnown, InHand, Holds, IdleWorker, NoRow
<1>2. IndInv /\ LeaseInv /\ [Next]_vars => LeaseInv'
  BY LeaseStep
<1> QED
  BY <1>1, <1>2, Invariance, PTL DEF Spec

\* Two processes have a message at the provider, or wait to confirm it, only if the lease
\* of one was over when the other read its clock, whatever outlives its lease (outbox.ts
\* processOnce, postgres-store.ts claimBatch).
THEOREM SendsAreApart == Spec => []SendsALeaseApart
<1>1. IndInv /\ LeaseInv => SendsALeaseApart
  <2> SUFFICES ASSUME IndInv, LeaseInv, NEW v \in Workers, NEW w \in Workers, v # w,
                      worker[v].job = worker[w].job,
                      {worker[v].phase, worker[w].phase} \subseteq {"sending", "confirming"}
               PROVE  ALeaseApart(worker[v], worker[w])
    BY DEF SendsALeaseApart
  <2>1. worker[v].job \in InHand(worker[v]) \intersect InHand(worker[w])
    BY DEF InHand
  <2> QED
    BY <2>1 DEF LeaseInv
<1> QED
  BY <1>1, Invariance, LeaseInvariance, PTL

-----------------------------------------------------------------------------
(* Workers that act before their leases end.                               *)

\* A mark is on its way that ends the lease of message i.
Owed(i) ==
  \E w \in Workers : /\ worker[w].job = i /\ Holds(w, i)
                     /\ worker[w].phase \in {"confirming", "expiring", "failing"}

Debt(i) == row[i].status = "DELIVERED" \/ Owed(i)

\* A message was sent once for each attempt counted, for each fault, and for the mark on its
\* way or the one that delivered it.
SendsCounted ==
  \A i \in Ids :
    /\ row[i].status = "DELIVERED" => row[i].attemptCount < MaxAttempts
    /\ sends[i] <= row[i].attemptCount + faults + IF Debt(i) THEN 1 ELSE 0

\* A call that runs has not come to the end of its leases.
InTime(w) == worker[w].phase # "idle" => now < LeaseEnd(worker[w])

PromptInv == LeaseInv /\ (\A w \in Workers : InTime(w)) /\ SendsCounted

\* The rows held by v are not touched, and v gets hold of no other.
Spared(v) ==
  \A i \in Ids :
    \/ row'[i] = row[i]
    \/ ~Holds(v, i) /\ ~(row'[i].status = "PROCESSING" /\ row'[i].leaseToken = worker[v].token)

\* What is sent stays counted if no message loses its mark but by a count or a fault.
LEMMA StillCounted ==
  ASSUME IndInv, PromptInv, TypeOK', sends' = sends, faults' >= faults,
         \A i \in Ids :
           /\ row'[i].attemptCount >= row[i].attemptCount
           /\ \/ row'[i].attemptCount > row[i].attemptCount
              \/ faults' > faults
              \/ Debt(i) => Debt(i)'
           /\ row'[i].status = "DELIVERED" => row'[i].attemptCount < MaxAttempts
  PROVE  SendsCounted'
<1> SUFFICES ASSUME NEW i \in Ids
             PROVE  sends'[i] <= row'[i].attemptCount + faults' + IF Debt(i)' THEN 1 ELSE 0
  BY DEF SendsCounted
<1>1. /\ row[i].attemptCount \in Nat /\ row'[i].attemptCount \in Nat
      /\ faults \in Nat /\ faults' \in Nat /\ sends[i] \in Nat
  BY DEF IndInv, TypeOK, Row
<1>2. sends[i] <= row[i].attemptCount + faults + IF Debt(i) THEN 1 ELSE 0
  BY DEF PromptInv, SendsCounted
<1>3. PICK x \in {0, 1}, y \in {0, 1} :
        x = (IF Debt(i) THEN 1 ELSE 0) /\ y = IF Debt(i)' THEN 1 ELSE 0
  OBVIOUS
<1>4. \/ row'[i].attemptCount > row[i].attemptCount
      \/ faults' > faults
      \/ x <= y
  BY <1>3
<1> QED
  BY <1>1, <1>2, <1>3, <1>4

\* Messages keep their counts and marks while no row and no mark changes.
LEMMA QuietCount ==
  ASSUME IndInv, PromptInv, TypeOK', sends' = sends, row' = row, faults' >= faults,
         \/ faults' > faults
         \/ \A w \in Workers :
              \/ worker'[w] = worker[w]
              \/ worker[w].phase \notin {"confirming", "expiring", "failing"}
  PROVE  SendsCounted'
<1>1. faults \in Nat /\ faults' \in Nat
  BY DEF IndInv, TypeOK
<1>2. ASSUME NEW i \in Ids PROVE faults' > faults \/ (Debt(i) => Debt(i)')
  BY DEF Debt, Owed, Holds
<1>3. \A i \in Ids : /\ row'[i].attemptCount >= row[i].attemptCount
                     /\ row'[i].status = "DELIVERED" => row'[i].attemptCount < MaxAttempts
  BY DEF PromptInv, SendsCounted, IndInv, TypeOK, Row
<1> QED
  BY <1>1, <1>2, <1>3, StillCounted

\* A worker in the middle of its loop: its lease runs, so what it has in hand is leased to it.
LEMMA LoopFacts ==
  ASSUME IndInv, PromptInv, NEW w \in Workers, worker[w].phase # "idle"
  PROVE  /\ worker[w] \in Worker /\ LocalsOK(worker[w]) /\ worker[w].token # NoToken
         /\ worker[w].jobs \subseteq Ids /\ NoId \notin worker[w].jobs
         /\ worker[w].job \notin worker[w].jobs
         /\ worker[w].phase \notin {"claiming", "locking"} =>
              \A i \in worker[w].jobs : Holds(w, i)
         /\ worker[w].phase \in {"resolving", "sending"} =>
              worker[w].job \in Ids /\ Holds(w, worker[w].job)
<1>1. /\ worker[w] \in Worker /\ LocalsOK(worker[w]) /\ LeaseKnown(w) /\ InTime(w)
      /\ now \in Nat /\ LeaseEnd(worker[w]) \in Nat
  BY OutboxAssumption DEF IndInv, TypeOK, PromptInv, LeaseInv, LeaseEnd, Worker
<1>2. worker[w].jobs \subseteq Ids /\ NoId \notin worker[w].jobs
  BY <1>1, OutboxAssumption DEF Worker
<1>3. \A i \in InHand(worker[w]) : Holds(w, i)
  BY <1>1 DEF LeaseKnown, InTime, Overtaken
<1> QED
  BY <1>1, <1>2, <1>3 DEF LeaseKnown, InHand, LocalsOK, Busy

LEMMA EnqueuePrompt ==
  ASSUME IndInv, IndInv', PromptInv, NEW i \in Ids, NEW d \in Deliveries, NEW ttl \in Ttls,
         Enqueue(i, d, ttl)
  PROVE  SendsCounted'
<1>1. /\ row[i] = NoRow /\ row'[i].status = "PENDING" /\ row'[i].attemptCount = 0
      /\ \A j \in Ids \ {i} : row'[j] = row[j]
      /\ UNCHANGED <<worker, sends, now, faults>>
  BY DEF Enqueue, IndInv, TypeOK, RowsOK, NoRow
<1>2. TypeOK' /\ faults' >= faults
  BY <1>1 DEF IndInv, TypeOK
<1>3. ASSUME NEW j \in Ids
      PROVE  /\ row'[j].attemptCount >= row[j].attemptCount
             /\ Debt(j) => Debt(j)'
             /\ row'[j].status = "DELIVERED" => row'[j].attemptCount < MaxAttempts
  <2>1. row[j].attemptCount \in Nat
    BY DEF IndInv, TypeOK, Row
  <2>2. CASE j = i
    BY <1>1, <2>1, <2>2 DEF NoRow, Debt, Owed, Holds
  <2>3. CASE j # i
    BY <1>1, <2>1, <2>3 DEF Debt, Owed, Holds, PromptInv, SendsCounted
  <2> QED
    BY <2>2, <2>3
<1> QED
  BY <1>1, <1>2, <1>3, StillCounted

\* The steps that change no row, send nothing and settle nothing.
LEMMA QuietPrompt ==
  ASSUME IndInv, IndInv', PromptInv,
         \/ Tick
         \/ \E w \in Workers : \/ \E t \in Tokens : Start(w, t)
                               \/ SelectBatch(w) \/ Return(w) \/ Crash(w)
                               \/ \E i \in Ids, b \in Decrypts : BeginJob(w, i, b)
                               \/ \E o \in {"found", "null", "throws"} : Resolve(w, o)
  PROVE  SendsCounted'
<1>1. /\ UNCHANGED <<row, sends>> /\ TypeOK' /\ faults \in Nat
      /\ faults' \in {faults, faults + 1}
  BY DEF Tick, Start, SelectBatch, Return, Crash, BeginJob, Resolve, IndInv, TypeOK
<1>2. \/ faults' = faults + 1
      \/ \A w \in Workers : \/ worker'[w] = worker[w]
                            \/ worker[w].phase \notin {"confirming", "expiring", "failing"}
  BY DEF Tick, Start, SelectBatch, Return, Crash, BeginJob, Resolve, IndInv, TypeOK
<1> QED
  BY <1>1, <1>2, QuietCount

\* A claim takes a row from no other worker that is prompt: its lease still runs.
LEMMA ClaimSpares ==
  ASSUME IndInv, PromptInv, NEW w \in Workers, ClaimBatch(w), NEW v \in Workers \ {w},
         worker[v].phase # "idle"
  PROVE  Spared(v)
<1>1. /\ LocalsOK(worker[w]) /\ LocalsOK(worker[v]) /\ Apart(v, w) /\ LeaseKnown(v)
      /\ InTime(v)
      /\ worker[w] \in Worker /\ worker[v] \in Worker /\ row \in [Ids -> Row] /\ now \in Nat
  BY DEF IndInv, TypeOK, PromptInv, LeaseInv
<1>2. /\ worker[w].phase = "locking"
      /\ \A i \in Ids : row'[i] = IF i \in worker[w].jobs THEN Lease(row[i], w) ELSE row[i]
  BY DEF ClaimBatch
<1>3. worker[v].token # worker[w].token
  BY <1>1 DEF Apart, LocalsOK
<1>4. ASSUME NEW i \in Ids, i \in worker[w].jobs
      PROVE  ~Holds(v, i) /\ row'[i].leaseToken # worker[v].token
  <2>1. row'[i] = Lease(row[i], w) /\ row[i] \in Row
    BY <1>1, <1>2, <1>4
  <2>2. row'[i].leaseToken = worker[w].token
    BY <2>1 DEF Lease, Row
  <2>3. Claimable(i, worker[w].claimedAt)
    BY <1>1, <1>2, <1>4 DEF LocalsOK
  <2>4. row[i].status = "PROCESSING" => row[i].leaseExpiresAt <= worker[w].claimedAt
    BY <2>3 DEF Claimable
  <2>5. /\ row[i].leaseExpiresAt \in Nat /\ worker[w].claimedAt \in Nat
        /\ worker[v].claimedAt + LeaseDuration \in Nat
        /\ worker[w].claimedAt <= now /\ now < worker[v].claimedAt + LeaseDuration
    BY <1>1, <2>1, OutboxAssumption DEF Row, Worker, LocalsOK, InTime, LeaseEnd
  <2>6. Holds(v, i) => row[i].leaseExpiresAt = worker[v].claimedAt + LeaseDuration
    BY <1>1 DEF LeaseKnown, LeaseEnd
  <2>7. ~Holds(v, i)
    BY <1>1, <2>4, <2>5, <2>6 DEF Holds
  <2> QED
    BY <1>3, <2>2, <2>7
<1> QED
  BY <1>2, <1>4 DEF Spared

LEMMA ClaimBatchPrompt ==
  ASSUME IndInv, IndInv', PromptInv, NEW w \in Workers, ClaimBatch(w)
  PROVE  SendsCounted'
<1>1. /\ worker[w].phase = "locking" /\ worker \in [Workers -> Worker] /\ LocalsOK(worker[w])
      /\ UNCHANGED <<accepted, sends, now, faults>> /\ row \in [Ids -> Row]
      /\ TypeOK' /\ faults' >= faults
      /\ \A i \in Ids : row'[i] = IF i \in worker[w].jobs THEN Lease(row[i], w) ELSE row[i]
  BY DEF ClaimBatch, IndInv, TypeOK
<1>2. \A v \in Workers \ {w} : worker'[v] = worker[v]
  BY <1>1 DEF ClaimBatch
<1>3. \A i \in Ids : i \in worker[w].jobs =>
        /\ row'[i].status = "PROCESSING" /\ row'[i].attemptCount = row[i].attemptCount
        /\ row[i].status \in {"PENDING", "PROCESSING"}
  <2>1. \A i \in Ids : i \in worker[w].jobs => row[i] \in Row /\ row'[i] = Lease(row[i], w)
    BY <1>1
  <2> QED
    BY <1>1, <2>1 DEF Lease, Row, LocalsOK, Claimable
<1>4. ASSUME NEW i \in Ids
      PROVE  /\ row'[i].attemptCount >= row[i].attemptCount
             /\ Debt(i) => Debt(i)'
             /\ row'[i].status = "DELIVERED" => row'[i].attemptCount < MaxAttempts
  <2>1. row[i].attemptCount \in Nat
    BY <1>1 DEF Row
  <2>2. row'[i].attemptCount = row[i].attemptCount
        /\ (row'[i].status = "DELIVERED" => row'[i] = row[i])
    BY <1>1, <1>3
  <2>3. ASSUME Owed(i) PROVE Owed(i)'
    <3>1. PICK v \in Workers : /\ worker[v].job = i /\ Holds(v, i)
                               /\ worker[v].phase \in {"confirming", "expiring", "failing"}
      BY <2>3 DEF Owed
    <3>2. v # w /\ Spared(v)
      BY <1>1, <3>1, ClaimSpares
    <3>3. row'[i] = row[i] /\ worker'[v] = worker[v]
      BY <1>2, <3>1, <3>2 DEF Spared
    <3> QED
      BY <3>1, <3>3 DEF Owed, Holds
  <2>4. row[i].status = "DELIVERED" => row'[i] = row[i]
    BY <1>1, <1>3
  <2> QED
    BY <2>1, <2>2, <2>3, <2>4 DEF Debt, PromptInv, SendsCounted
<1> QED
  BY <1>1, <1>4, StillCounted

\* A message that is sent has no mark on its way: its worker holds it, and no other.
LEMMA SendPrompt ==
  ASSUME IndInv, IndInv', PromptInv, NEW w \in Workers,
         NEW o \in {"accepted", "refused", "no-answer"}, Send(w, o)
  PROVE  SendsCounted'
<1> DEFINE j == worker[w].job
<1>1. /\ worker[w].phase = "sending" /\ worker \in [Workers -> Worker] /\ TypeOK
      /\ UNCHANGED <<row, now, faults>> /\ sends' = [sends EXCEPT ![j] = @ + 1]
      /\ worker[w] \in Worker /\ \A i \in worker[w].jobs : Holds(w, i)
      /\ j \in Ids /\ Holds(w, j) /\ j \notin worker[w].jobs /\ worker[w].token # NoToken
  BY LoopFacts DEF Send, IndInv, TypeOK
<1>2. PICK q : /\ worker' = [worker EXCEPT ![w] = q]
               /\ q = [worker[w] EXCEPT !.phase = "confirming"] \/ q = Catch(w)
  <2>1. \/ worker' = [worker EXCEPT ![w] = [worker[w] EXCEPT !.phase = "confirming"]]
        \/ worker' = [worker EXCEPT ![w] = Catch(w)]
    BY <1>1 DEF Send
  <2> QED
    BY <2>1
<1>3. /\ q \in Worker /\ q.phase \in {"confirming", "failing"} /\ q.jobs = worker[w].jobs
      /\ q.job = j /\ q.token = worker[w].token /\ q.claimedAt = worker[w].claimedAt
  <2>1. CASE q = Catch(w)
    BY <1>1, <2>1, WorkerForms, LeavingForms
  <2>2. CASE q # Catch(w)
    BY <1>1, <1>2, <2>2 DEF Worker, Phases
  <2> QED
    BY <2>1, <2>2
<1>4. worker'[w] = q /\ \A v \in Workers \ {w} : worker'[v] = worker[v]
  BY <1>1, <1>2
<1>5. ASSUME NEW i \in Ids
      PROVE  /\ (row[i].status = "DELIVERED" => row[i].attemptCount < MaxAttempts)'
             /\ sends'[i] <= row'[i].attemptCount + faults' + IF Debt(i)' THEN 1 ELSE 0
  <2>1. /\ row[i].status = "DELIVERED" => row[i].attemptCount < MaxAttempts
        /\ sends[i] <= row[i].attemptCount + faults + IF Debt(i) THEN 1 ELSE 0
    BY DEF PromptInv, SendsCounted
  <2>2. sends[i] \in Nat /\ row[i].attemptCount \in Nat /\ faults \in Nat
    BY <1>1 DEF TypeOK, Row
  <2>3. CASE i = j
    <3>1. ~Owed(i)
      <4>1. SUFFICES ASSUME NEW v \in Workers, worker[v].job = i, Holds(v, i),
                            worker[v].phase \in {"confirming", "expiring", "failing"}
                     PROVE  FALSE
        BY DEF Owed
      <4>2. v # w /\ worker[v].token = worker[w].token
        BY <1>1, <2>3, <4>1 DEF Holds
      <4> QED
        BY <1>1, <4>2 DEF IndInv, Apart
    <3>2. ~Debt(i)
      BY <1>1, <2>3, <3>1 DEF Debt, Holds
    <3>3. Debt(i)'
      BY <1>1, <1>3, <1>4, <2>3 DEF Debt, Owed, Holds
    <3>4. sends'[i] = sends[i] + 1
      BY <1>1, <2>3 DEF TypeOK
    <3>5. sends[i] <= row[i].attemptCount + faults
      BY <2>1, <2>2, <3>2
    <3>6. sends'[i] <= row'[i].attemptCount + faults' + 1
      BY <1>1, <2>2, <3>4, <3>5
    <3> QED
      BY <1>1, <2>1, <3>3, <3>6
  <2>4. CASE i # j
    <3>1. sends'[i] = sends[i] /\ row'[i] = row[i] /\ faults' = faults
      BY <1>1, <2>4 DEF TypeOK
    <3>2. Debt(i)' <=> Debt(i)
      BY <1>1, <1>3, <1>4, <2>4 DEF Debt, Owed, Holds
    <3> QED
      BY <2>1, <3>1, <3>2
  <2> QED
    BY <2>3, <2>4
<1> QED
  BY <1>5 DEF SendsCounted

LEMMA MarkPrompt ==
  ASSUME IndInv, IndInv', PromptInv, NEW w \in Workers, NEW o \in Outcomes,
         MarkDelivered(w, o) \/ MarkDead(w, o) \/ MarkFailed(w, o)
  PROVE  SendsCounted'
<1>1. PICK j : j = worker[w].job
  OBVIOUS
<1>2. /\ j \in Ids /\ worker[w].phase \in {"confirming", "expiring", "failing"}
      /\ sends' = sends /\ now' = now /\ faults' \in Nat /\ faults' >= faults
  BY <1>1, MarkEffect
<1>3. \A v \in Workers \ {w} : worker'[v] = worker[v]
  <2>1. \E q \in {NextJob(w), Catch(w), IdleWorker} : worker' = [worker EXCEPT ![w] = q]
    BY MarkEffect
  <2> QED
    BY <2>1 DEF IndInv, TypeOK
<1>4. CASE \E s \in Row : /\ Holds(w, j) /\ row' = [row EXCEPT ![j] = s]
                          /\ s.leaseToken = NoToken /\ s.status # "PROCESSING"
                          /\ s.attemptCount = row[j].attemptCount
                                                + IF s.status = "DELIVERED" THEN 0 ELSE 1
  <2>1. PICK s \in Row : /\ Holds(w, j) /\ row' = [row EXCEPT ![j] = s]
                         /\ s.leaseToken = NoToken /\ s.status # "PROCESSING"
                         /\ s.attemptCount = row[j].attemptCount
                                               + IF s.status = "DELIVERED" THEN 0 ELSE 1
    BY <1>4
  <2>2. row \in [Ids -> Row] /\ row'[j] = s /\ \A i \in Ids \ {j} : row'[i] = row[i]
    BY <1>2, <2>1 DEF IndInv, TypeOK
  <2>3. ASSUME NEW i \in Ids
        PROVE  /\ row'[i].attemptCount >= row[i].attemptCount
               /\ row'[i].attemptCount > row[i].attemptCount \/ (Debt(i) => Debt(i)')
               /\ row'[i].status = "DELIVERED" => row'[i].attemptCount < MaxAttempts
    <3>1. row[i].attemptCount \in Nat
      BY <2>2 DEF Row
    <3>2. CASE i = j
      <4>1. row[j].attemptCount < MaxAttempts
        BY <1>2, <2>1 DEF IndInv, RetryBudget, Holds
      <4>2. CASE s.status = "DELIVERED"
        BY <2>1, <2>2, <3>1, <3>2, <4>1, <4>2 DEF Debt
      <4>3. CASE s.status # "DELIVERED"
        BY <2>1, <2>2, <3>1, <3>2, <4>3
      <4> QED
        BY <4>2, <4>3
    <3>3. CASE i # j
      <4>1. Owed(i) => Owed(i)'
        BY <1>1, <1>3, <2>2, <3>3 DEF Owed, Holds
      <4> QED
        BY <2>2, <3>1, <3>3, <4>1 DEF Debt, PromptInv, SendsCounted
    <3> QED
      BY <3>2, <3>3
  <2> QED
    BY <1>2, <2>3, StillCounted DEF IndInv
<1>5. CASE row' = row /\ (Holds(w, j) => faults' = faults + 1)
  <2>1. ASSUME NEW i \in Ids PROVE faults' > faults \/ (Debt(i) => Debt(i)')
    <3>1. faults \in Nat
      BY DEF IndInv, TypeOK
    <3>2. SUFFICES ASSUME ~(faults' > faults), Owed(i) PROVE Owed(i)'
      BY <1>5 DEF Debt
    <3>3. PICK v \in Workers : /\ worker[v].job = i /\ Holds(v, i)
                               /\ worker[v].phase \in {"confirming", "expiring", "failing"}
      BY <3>2 DEF Owed
    <3>4. v # w
      BY <1>1, <1>5, <3>1, <3>2, <3>3
    <3> QED
      BY <1>3, <1>5, <3>3, <3>4 DEF Owed, Holds
  <2>2. \A i \in Ids : /\ row'[i].attemptCount >= row[i].attemptCount
                       /\ row'[i].status = "DELIVERED" => row'[i].attemptCount < MaxAttempts
    BY <1>5 DEF PromptInv, SendsCounted, IndInv, TypeOK, Row
  <2> QED
    BY <1>2, <2>1, <2>2, StillCounted DEF IndInv
<1> QED
  BY <1>1, <1>4, <1>5, MarkEffect

\* A call starts at the beginning of its lease, and the clock waits for a running call to
\* finish before its leases end.
LEMMA InTimeStep ==
  ASSUME IndInv, IndInv', PromptInv, PromptWorkers, [Next]_vars, NEW w \in Workers
  PROVE  InTime(w)'
<1>1. now \in Nat /\ worker \in [Workers -> Worker] /\ InTime(w)
  BY DEF IndInv, TypeOK, PromptInv
<1>2. CASE UNCHANGED vars
  BY <1>1, <1>2 DEF vars, InTime, LeaseEnd
<1>3. CASE Tick
  BY <1>3 DEF Tick, MayTick, InTime, LeaseEnd
<1>4. ASSUME NEW v \in Workers, Step(v) \/ Crash(v)
      PROVE  /\ now' = now /\ \A u \in Workers \ {v} : worker'[u] = worker[u]
             /\ \/ worker'[v].phase = "idle"
                \/ worker'[v].claimedAt = now
                \/ worker[v].phase # "idle" /\ worker'[v].claimedAt = worker[v].claimedAt
  <2>1. CASE \E t \in Tokens : Start(v, t)
    BY <1>1, <2>1 DEF Start, IdleWorker
  <2>2. CASE Crash(v) \/ Return(v)
    BY <1>1, <2>2 DEF Crash, Return, IdleWorker
  <2>3. CASE SelectBatch(v) \/ ClaimBatch(v)
    BY <1>1, <2>3 DEF SelectBatch, ClaimBatch, Worker
  <2>4. CASE \E i \in Ids, b \in Decrypts : BeginJob(v, i, b)
    BY <1>1, <2>4 DEF BeginJob, Worker
  <2>5. CASE \E o \in {"found", "null", "throws"} : Resolve(v, o)
    BY <1>1, <2>5 DEF Resolve, Catch, Worker
  <2>6. CASE \E o \in {"accepted", "refused", "no-answer"} : Send(v, o)
    BY <1>1, <2>6 DEF Send, Catch, Worker
  <2>7. CASE \E o \in Outcomes : MarkDelivered(v, o) \/ MarkDead(v, o) \/ MarkFailed(v, o)
    <3>1. PICK o \in Outcomes : MarkDelivered(v, o) \/ MarkDead(v, o) \/ MarkFailed(v, o)
      BY <2>7
    <3>2. worker[v].phase # "idle" /\ now' = now
      BY <3>1 DEF MarkDelivered, MarkDead, MarkFailed, Update
    <3>3. \E q \in {NextJob(v), Catch(v), IdleWorker} : worker' = [worker EXCEPT ![v] = q]
      BY <3>1, MarkEffect
    <3> QED
      BY <1>1, <3>2, <3>3, LeavingForms DEF IndInv
  <2> QED
    BY <1>4, <2>1, <2>2, <2>3, <2>4, <2>5, <2>6, <2>7 DEF Step
<1>5. ASSUME NEW v \in Workers, Step(v) \/ Crash(v) PROVE InTime(w)'
  <2>1. now < now + LeaseDuration
    BY <1>1, OutboxAssumption
  <2> QED
    BY <1>1, <1>4, <1>5, <2>1 DEF InTime, LeaseEnd
<1>6. ASSUME NEW i \in Ids, NEW d \in Deliveries, NEW ttl \in Ttls, Enqueue(i, d, ttl)
      PROVE  InTime(w)'
  BY <1>1, <1>6 DEF Enqueue, InTime, LeaseEnd
<1> QED
  BY <1>2, <1>3, <1>5, <1>6 DEF Next

LEMMA PromptStep ==
  ASSUME IndInv, IndInv', PromptInv, PromptWorkers, [Next]_vars
  PROVE  PromptInv'
<1>1. LeaseInv' /\ \A w \in Workers : InTime(w)'
  BY LeaseStep, InTimeStep DEF PromptInv
<1>2. SendsCounted'
  <2>1. CASE UNCHANGED vars
    BY <2>1 DEF vars, PromptInv, SendsCounted, Debt, Owed, Holds
  <2>2. ASSUME NEW w \in Workers, Step(w) PROVE SendsCounted'
    BY <2>2, QuietPrompt, ClaimBatchPrompt, SendPrompt, MarkPrompt DEF Step
  <2> QED
    BY <2>1, <2>2, EnqueuePrompt, QuietPrompt DEF Next
<1> QED
  BY <1>1, <1>2 DEF PromptInv

\* Of prompt workers, what they hold and what they sent stays accounted for.
THEOREM PromptInvariance == ASSUME PromptWorkers PROVE Spec => []PromptInv
<1>1. Init => LeaseInv
  BY OutboxAssumption
     DEF Init, LeaseInv, LeaseKnown, InHand, Holds, IdleWorker, NoRow
<1>2. Init => (\A w \in Workers : InTime(w)) /\ SendsCounted
  BY DEF Init, InTime, SendsCounted, IdleWorker, NoRow, Debt, Owed
<1>3. IndInv /\ IndInv' /\ PromptInv /\ [Next]_vars => PromptInv'
  BY PromptStep
<1> QED
  BY <1>1, <1>2, <1>3, Invariance, PTL DEF Spec, PromptInv

\* A message is handed to the provider at most MaxAttempts times, and once more for each crash
\* or failed statement, if workers act before their leases end (postgres-store.ts markFailed).
THEOREM ResendsAreCounted == ASSUME PromptWorkers PROVE Spec => []ResendsAreFaults
<1>1. IndInv /\ PromptInv => ResendsAreFaults
  <2> SUFFICES ASSUME IndInv, PromptInv, NEW i \in Ids PROVE sends[i] <= MaxAttempts + faults
    BY DEF ResendsAreFaults
  <2>1. /\ row[i].attemptCount \in Nat /\ faults \in Nat /\ sends[i] \in Nat
        /\ row[i].attemptCount <= MaxAttempts
        /\ row[i].status = "PROCESSING" => row[i].attemptCount < MaxAttempts
    BY DEF IndInv, TypeOK, Row, RetryBudget
  <2>2. /\ row[i].status = "DELIVERED" => row[i].attemptCount < MaxAttempts
        /\ sends[i] <= row[i].attemptCount + faults + IF Debt(i) THEN 1 ELSE 0
    BY DEF PromptInv, SendsCounted
  <2>3. Debt(i) => row[i].attemptCount < MaxAttempts
    BY <2>1, <2>2 DEF Debt, Owed, Holds
  <2> QED
    BY <2>1, <2>2, <2>3, OutboxAssumption
<1> QED
  BY <1>1, Invariance, PromptInvariance, PTL
=============================================================================
