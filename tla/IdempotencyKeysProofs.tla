----------------------- MODULE IdempotencyKeysProofs -----------------------
(* Theorems about IdempotencyKeys, for every value of its constants. *)
EXTENDS IdempotencyKeys, TLAPS

\* The initial state satisfies the invariant.
LEMMA InitInv == Init => IndInv
<1> SUFFICES ASSUME Init PROVE IndInv
  OBVIOUS
<1>1. NoRow \in Row /\ row = NoRow /\ lock = NoClient /\ began = {} /\ now = 0
  BY DEF Init, NoRow, Row
<1>2. IdleClient \in Client /\ \A c \in Clients : client[c] = IdleClient
  BY <1>1 DEF Init, IdleClient, Client, Phases
<1>3. TypeOK
  BY <1>1, <1>2 DEF Init, TypeOK
<1>4. RowOK /\ BeganOK /\ OneOwnerPerGeneration /\ SnapshotHolds /\ CompletedByOwner
        /\ ReplayIsAuthentic
  BY <1>1, <1>2 DEF RowOK, BeganOK, OneOwnerPerGeneration, SnapshotHolds,
                    CompletedByOwner, ReplayIsAuthentic, NoRow, IdleClient
<1>5. \A c \in Clients : TransactionOK(c) /\ OwnerOK(c)
  <2> SUFFICES ASSUME NEW c \in Clients PROVE TransactionOK(c) /\ OwnerOK(c)
    OBVIOUS
  <2>1. client[c].phase = "idle" /\ client[c].now = 0 /\ lock # c
    BY <1>1, <1>2, IdempotencyAssumption DEF IdleClient
  <2> QED
    BY <1>1, <2>1 DEF TransactionOK, OwnerOK, Owner, InTransaction
<1> QED
  BY <1>3, <1>4, <1>5 DEF IndInv

\* A step of one client that leaves the row, the clock and the history alone.
LEMMA ClientStep ==
  ASSUME IndInv, NEW c \in Clients,
         client' = [client EXCEPT ![c] = client'[c]], client'[c] \in Client,
         UNCHANGED <<row, now, began>>, faults' \in Nat,
         \/ lock' = lock
         \/ lock' = NoClient /\ lock = c
         \/ lock' = c /\ lock = NoClient,
         TransactionOK(c)', OwnerOK(c)',
         client'[c].phase = "selected" => client'[c].seen = row,
         client'[c].phase = "replay" =>
           \E b \in began : b.client = client'[c].response /\ b.hash = client'[c].hash
  PROVE  IndInv'
<1>1. /\ client' \in [Clients -> Client]
      /\ \A d \in Clients \ {c} : client'[d] = client[d]
      /\ lock' \in Clients \union {NoClient}
  BY DEF IndInv, TypeOK
<1>2. TypeOK'
  BY <1>1 DEF TypeOK, IndInv
<1>3. RowOK' /\ BeganOK' /\ OneOwnerPerGeneration' /\ CompletedByOwner'
  BY DEF IndInv, RowOK, BeganOK, OneOwnerPerGeneration, CompletedByOwner
<1>4. \A d \in Clients : TransactionOK(d)'
  <2> SUFFICES ASSUME NEW d \in Clients, d # c PROVE TransactionOK(d)'
    OBVIOUS
  <2>1. lock' = d <=> lock = d
    BY IdempotencyAssumption
  <2> QED
    BY <1>1, <2>1 DEF IndInv, TransactionOK, FreshRow
<1>5. \A d \in Clients : OwnerOK(d)'
  BY <1>1 DEF IndInv, OwnerOK, Owner
<1>6. SnapshotHolds' /\ ReplayIsAuthentic'
  BY <1>1 DEF IndInv, SnapshotHolds, ReplayIsAuthentic
<1> QED
  BY <1>2, <1>3, <1>4, <1>5, <1>6 DEF IndInv

\* The client forgets everything: it returns, dies, or sees an exception.
LEMMA ForgetStep ==
  ASSUME IndInv, NEW c \in Clients, NEW q \in {IdleClient, Failed,
                                              [IdleClient EXCEPT !.phase = "completed"]},
         client' = [client EXCEPT ![c] = q],
         UNCHANGED <<row, now, began>>, faults' \in Nat,
         Unlock(c)
  PROVE  IndInv'
<1>1. /\ q \in Client /\ q.phase \in {"idle", "failed", "completed"} /\ q.now = 0
      /\ client'[c] = q /\ client' = [client EXCEPT ![c] = client'[c]]
  <2>1. NoRow \in Row
    BY DEF NoRow, Row
  <2> QED
    BY <2>1 DEF IdleClient, Failed, Client, Phases, Answered, InTransaction, IndInv, TypeOK
<1>2. TransactionOK(c)'
  BY <1>1, IdempotencyAssumption DEF TransactionOK, InTransaction, Unlock
<1>3. OwnerOK(c)'
  BY <1>1 DEF OwnerOK, Owner, IndInv, TypeOK
<1> QED
  BY <1>1, <1>2, <1>3, ClientStep DEF Unlock

\* A call begins outside any lock.
LEMMA CallInv ==
  ASSUME IndInv, NEW c \in Clients, NEW h \in Hashes, NEW ttl \in Ttls, Call(c, h, ttl)
  PROVE  IndInv'
<1> DEFINE q == client'[c]
<1>1. /\ TypeOK /\ TransactionOK(c) /\ now \in Nat /\ ttl \in Nat \ {0}
      /\ client[c].phase = "idle" /\ UNCHANGED <<row, lock, now, faults, began>>
  BY IdempotencyAssumption DEF IndInv, TypeOK, Call
<1>2. /\ client' = [client EXCEPT ![c] = q]
      /\ q = [IdleClient EXCEPT !.phase = "inserting", !.hash = h, !.now = now,
                                !.expiresAt = now + ttl]
  BY <1>1 DEF Call, TypeOK
<1> HIDE DEF q
<1>3. /\ q \in Client /\ q.phase = "inserting" /\ q.hash = h /\ q.now = now /\ q.now < q.expiresAt
  <2>1. PICK e \in Nat : e = now + ttl
    BY <1>1
  <2>2. NoRow \in Row
    BY DEF NoRow, Row
  <2>3. q = [IdleClient EXCEPT !.phase = "inserting", !.hash = h, !.now = now, !.expiresAt = e]
    BY <1>2, <2>1
  <2>4. now < e
    BY <1>1, <2>1
  <2> QED
    BY <1>1, <2>2, <2>3, <2>4 DEF Client, IdleClient, Phases, InTransaction
<1>4. TransactionOK(c)' /\ OwnerOK(c)'
  BY <1>1, <1>3 DEF q, TransactionOK, OwnerOK, Owner, InTransaction
<1> QED
  BY <1>1, <1>2, <1>3, <1>4, ClientStep DEF q, TypeOK

\* A client that moves on to its COMMIT with a draft, or with nothing to write.
LEMMA WriteStep ==
  ASSUME IndInv, NEW c \in Clients, NEW r \in Row,
         client[c].phase \in {"inserting", "selected"},
         Write(c, r), lock' = c, lock \in {NoClient, c},
         UNCHANGED <<row, now, faults, began>>,
         IF r.status = "NONE"
         THEN client[c].seen = row /\ row.status # "NONE"
         ELSE /\ r = FreshRow(c, row.generation + 1)
              /\ row.status = "NONE" \/ row.expiresAt <= client[c].now
  PROVE  IndInv'
<1> DEFINE q == client'[c]
<1>1. /\ TypeOK /\ TransactionOK(c) /\ OwnerOK(c) /\ client[c] \in Client
      /\ client' = [client EXCEPT ![c] = q]
      /\ q = [client[c] EXCEPT !.phase = "committing", !.draft = r]
  BY DEF IndInv, TypeOK, Write
<1> HIDE DEF q
<1>2. /\ q \in Client /\ q.phase = "committing" /\ q.draft = r /\ q.seen = client[c].seen
      /\ q.hash = client[c].hash /\ q.now = client[c].now /\ q.expiresAt = client[c].expiresAt
  BY <1>1 DEF Client, Phases, InTransaction
<1>3. TransactionOK(c)'
  BY <1>1, <1>2 DEF q, TransactionOK, InTransaction, FreshRow
<1>4. OwnerOK(c)'
  BY <1>1, <1>2 DEF q, OwnerOK, Owner
<1> QED
  BY <1>1, <1>2, <1>3, <1>4, ClientStep DEF q, TypeOK

\* The row a claim of client c would write.
LEMMA FreshRowType ==
  ASSUME IndInv, NEW c \in Clients, NEW g \in Nat, client[c].hash \in Hashes
  PROVE  FreshRow(c, g) \in Row /\ FreshRow(c, g).status = "IN_PROGRESS"
BY DEF FreshRow, Row, IndInv, TypeOK, Client

\* An INSERT drafts the first row, or goes on to the SELECT.
LEMMA InsertInv == ASSUME IndInv, NEW c \in Clients, Insert(c) PROVE IndInv'
<1>1. /\ TypeOK /\ RowOK /\ TransactionOK(c) /\ OwnerOK(c) /\ client[c] \in Client
      /\ client[c].phase = "inserting" /\ UNCHANGED <<row, now, faults, began>>
      /\ client[c].hash \in Hashes
  BY DEF IndInv, TypeOK, Insert, TransactionOK, InTransaction
<1>2. CASE row.status = "NONE"
  <2>1. row.generation = 0 /\ row.generation + 1 = 1
    BY <1>1, <1>2 DEF RowOK, NoRow
  <2>2. lock = NoClient /\ lock' = c /\ Write(c, FreshRow(c, row.generation + 1))
    BY <1>2, <2>1 DEF Insert
  <2>3. /\ FreshRow(c, row.generation + 1) \in Row
        /\ FreshRow(c, row.generation + 1).status = "IN_PROGRESS"
    BY <1>1, <2>1, FreshRowType
  <2> QED
    BY <1>1, <1>2, <2>2, <2>3, WriteStep
<1>3. CASE row.status # "NONE"
  <2> DEFINE q == client'[c]
  <2>1. /\ client' = [client EXCEPT ![c] = q]
        /\ q = [client[c] EXCEPT !.phase = "selecting"] /\ lock' = lock
    BY <1>1, <1>3 DEF Insert, TypeOK
  <2> HIDE DEF q
  <2>2. /\ q \in Client /\ q.phase = "selecting" /\ q.hash = client[c].hash
        /\ q.now = client[c].now /\ q.expiresAt = client[c].expiresAt
    BY <1>1, <2>1 DEF Client, Phases, InTransaction
  <2>3. TransactionOK(c)' /\ OwnerOK(c)'
    BY <1>1, <1>3, <2>1, <2>2 DEF q, TransactionOK, InTransaction, OwnerOK, Owner
  <2> QED
    BY <1>1, <2>1, <2>2, <2>3, ClientStep DEF q, TypeOK
<1> QED
  BY <1>2, <1>3

\* The SELECT takes the lock and reads the row.
LEMMA SelectInv == ASSUME IndInv, NEW c \in Clients, Select(c) PROVE IndInv'
<1> DEFINE q == client'[c]
<1>1. /\ TypeOK /\ TransactionOK(c) /\ OwnerOK(c) /\ client[c] \in Client
      /\ client[c].phase = "selecting" /\ UNCHANGED <<row, now, faults, began>>
      /\ lock = NoClient /\ lock' = c
      /\ client' = [client EXCEPT ![c] = q]
      /\ q = [client[c] EXCEPT !.phase = "selected", !.seen = row]
  BY DEF IndInv, TypeOK, Select
<1> HIDE DEF q
<1>2. /\ q \in Client /\ q.phase = "selected" /\ q.seen = row /\ q.hash = client[c].hash
      /\ q.now = client[c].now /\ q.expiresAt = client[c].expiresAt
  BY <1>1 DEF TypeOK, Client, Phases, InTransaction
<1>3. TransactionOK(c)' /\ OwnerOK(c)'
  BY <1>1, <1>2 DEF q, TransactionOK, InTransaction, OwnerOK, Owner
<1> QED
  BY <1>1, <1>2, <1>3, ClientStep DEF q, TypeOK

\* A claim drafts the next generation, or keeps the row.
LEMMA DecideInv ==
  ASSUME IndInv, NEW c \in Clients, Reclaim(c) \/ Keep(c)
  PROVE  IndInv'
<1>1. /\ TypeOK /\ TransactionOK(c) /\ client[c].phase = "selected"
      /\ UNCHANGED <<row, now, faults, began>> /\ lock = c /\ lock' = c
      /\ client[c].seen = row /\ row.status # "NONE" /\ client[c].hash \in Hashes
      /\ row.generation + 1 \in Nat
  BY DEF IndInv, TypeOK, Reclaim, Keep, TransactionOK, InTransaction, SnapshotHolds, Row
<1>2. CASE Reclaim(c)
  <2>1. Write(c, FreshRow(c, row.generation + 1)) /\ row.expiresAt <= client[c].now
    BY <1>1, <1>2 DEF Reclaim, Expired
  <2>2. /\ FreshRow(c, row.generation + 1) \in Row
        /\ FreshRow(c, row.generation + 1).status = "IN_PROGRESS"
    BY <1>1, FreshRowType
  <2> QED
    BY <1>1, <2>1, <2>2, WriteStep
<1>3. CASE Keep(c)
  <2>1. Write(c, NoRow) /\ NoRow \in Row /\ NoRow.status = "NONE"
    BY <1>3 DEF Keep, NoRow, Row
  <2> QED
    BY <1>1, <2>1, WriteStep
<1> QED
  BY <1>2, <1>3

\* A COMMIT that took effect with a draft: the next generation of the row.
LEMMA AppliedStep ==
  ASSUME IndInv, NEW c \in Clients, NEW o \in Outcomes, Commit(c, o),
         o # "not-applied", client[c].draft.status # "NONE"
  PROVE  IndInv'
<1> DEFINE q == client'[c]
           b == [generation |-> client[c].draft.generation, client |-> c,
                 hash |-> client[c].hash]
<1>1. /\ TypeOK /\ RowOK /\ BeganOK /\ TransactionOK(c) /\ OwnerOK(c) /\ client[c] \in Client
      /\ client[c].phase = "committing" /\ lock = c /\ lock' = NoClient
      /\ row' = client[c].draft /\ now' = now
      /\ client' = [client EXCEPT ![c] = q]
      /\ client[c].hash \in Hashes
      /\ row.generation \in Nat
      /\ client[c].draft = FreshRow(c, row.generation + 1)
      /\ row.status = "NONE" \/ row.expiresAt <= client[c].now
      /\ client[c].now <= now /\ client[c].now < client[c].expiresAt
  BY DEF IndInv, TypeOK, Commit, TransactionOK, OwnerOK, InTransaction, Unlock, Row
<1>2. /\ row' \in Row /\ row'.status = "IN_PROGRESS" /\ row'.hash = client[c].hash
      /\ row'.generation = row.generation + 1 /\ row'.response = NoClient
      /\ row'.expiresAt = client[c].expiresAt
  BY <1>1 DEF FreshRow, Row, Client
<1>3. \/ /\ o = "ok" /\ q.phase = "started" /\ q.generation = row.generation + 1
         /\ q.hash = client[c].hash /\ q.now = client[c].now
         /\ q.expiresAt = client[c].expiresAt /\ q \in Client
         /\ began' = began \union {b}
      \/ /\ q.phase = "failed" /\ q.now = 0 /\ q \in Client
         /\ began' = began
  <2>1. NoRow \in Row
    BY DEF NoRow, Row
  <2>2. CASE o = "ok"
    <3>1. q = [[client[c] EXCEPT !.phase = "started", !.generation = client[c].draft.generation]
                 EXCEPT !.seen = NoRow, !.draft = NoRow]
      BY <1>1, <2>2 DEF Commit, Settle, Answer, TypeOK
    <3>2. client[c].draft.generation = row.generation + 1 /\ row.generation + 1 \in Nat
      BY <1>1, <1>2
    <3> HIDE DEF q
    <3> QED
      BY <1>1, <2>1, <2>2, <3>1, <3>2 DEF Commit, Client, Phases, b
  <2>3. CASE o # "ok"
    <3>1. q = Failed /\ began' = began
      BY <1>1, <2>3 DEF Commit, TypeOK
    <3> HIDE DEF q
    <3> QED
      BY <2>1, <3>1 DEF Failed, IdleClient, Client, Phases, Answered
  <2> QED
    BY <2>2, <2>3
<1>4. /\ client' \in [Clients -> Client]
      /\ \A d \in Clients \ {c} : client'[d] = client[d]
  BY <1>1, <1>3 DEF TypeOK
<1>5. b \in Began /\ b.generation = row.generation + 1 /\ b.client = c
        /\ b.hash = client[c].hash
  BY <1>1, <1>2 DEF Began
<1> HIDE DEF q, b
<1>6. faults' \in Nat
  BY <1>1 DEF Commit, Fault, TypeOK
<1>7. TypeOK'
  BY <1>1, <1>2, <1>3, <1>4, <1>5, <1>6 DEF TypeOK
<1>8. RowOK'
  BY <1>1, <1>2 DEF RowOK
<1>9. BeganOK' /\ OneOwnerPerGeneration'
  <2>1. \A a \in began : a.generation \in 1..row.generation
    BY <1>1 DEF BeganOK
  <2>2. BeganOK'
    BY <1>1, <1>2, <1>3, <1>5, <2>1 DEF BeganOK
  <2>3. OneOwnerPerGeneration'
    BY <1>1, <1>3, <1>5, <2>1 DEF IndInv, OneOwnerPerGeneration
  <2> QED
    BY <2>2, <2>3
<1>10. \A d \in Clients : TransactionOK(d)'
  <2>1. TransactionOK(c)'
    BY <1>1, <1>3, IdempotencyAssumption DEF q, TransactionOK, InTransaction
  <2>2. ASSUME NEW d \in Clients, d # c PROVE TransactionOK(d)'
    BY <1>1, <1>2, <1>4, <2>2, IdempotencyAssumption DEF IndInv, TransactionOK, InTransaction
  <2> QED
    BY <2>1, <2>2
<1>11. \A d \in Clients : OwnerOK(d)'
  <2>1. OwnerOK(c)'
    BY <1>1, <1>2, <1>3, <1>5 DEF q, b, OwnerOK, Owner, TypeOK
  <2>2. ASSUME NEW d \in Clients, d # c, Owner(d)
        PROVE  client[d].generation # row.generation + 1 /\ client[d].expiresAt <= now
    <3>1. /\ OwnerOK(d) /\ client[d] \in Client
          /\ [generation |-> client[d].generation, client |-> d, hash |-> client[d].hash] \in began
      BY <2>2 DEF IndInv, OwnerOK, TypeOK
    <3>2. client[d].generation \in 1..row.generation
      BY <1>1, <3>1 DEF BeganOK
    <3>3. row.status # "NONE"
      BY <1>1, <3>2 DEF RowOK, NoRow
    <3>4. row.expiresAt <= now
      BY <1>1, <3>3 DEF TypeOK, Row, Client
    <3> QED
      BY <1>1, <2>2, <3>1, <3>2, <3>4 DEF OwnerOK
  <2>3. ASSUME NEW d \in Clients, d # c PROVE OwnerOK(d)'
    BY <1>1, <1>2, <1>3, <1>4, <2>2, <2>3 DEF IndInv, OwnerOK, Owner
  <2> QED
    BY <2>1, <2>3
<1>12. SnapshotHolds'
  BY <1>1, <1>3, <1>4 DEF IndInv, TransactionOK, SnapshotHolds, q
<1>13. CompletedByOwner'
  BY <1>2 DEF CompletedByOwner
<1>14. ReplayIsAuthentic'
  BY <1>3, <1>4 DEF IndInv, ReplayIsAuthentic, q
<1> QED
  BY <1>7, <1>8, <1>9, <1>10, <1>11, <1>12, <1>13, <1>14 DEF IndInv

\* A COMMIT applies the draft of the lock holder, or nothing.
LEMMA CommitInv ==
  ASSUME IndInv, NEW c \in Clients, NEW o \in Outcomes, Commit(c, o)
  PROVE  IndInv'
<1>1. /\ TypeOK /\ RowOK /\ TransactionOK(c) /\ OwnerOK(c) /\ client[c] \in Client
      /\ client[c].phase = "committing" /\ lock = c /\ lock' = NoClient /\ now' = now
      /\ client[c].hash \in Hashes
  BY DEF IndInv, TypeOK, Commit, TransactionOK, InTransaction, Unlock
<1>2. faults' \in Nat
  BY <1>1 DEF Commit, Fault, TypeOK
<1>3. CASE o # "not-applied" /\ client[c].draft.status # "NONE"
  BY <1>3, AppliedStep
<1>4. CASE o # "ok" /\ ~(o # "not-applied" /\ client[c].draft.status # "NONE")
  <2>1. client' = [client EXCEPT ![c] = Failed] /\ UNCHANGED <<row, now, began>> /\ Unlock(c)
    BY <1>4 DEF Commit
  <2> QED
    BY <1>2, <2>1, ForgetStep
<1>5. CASE o = "ok" /\ client[c].draft.status = "NONE"
  <2> DEFINE q == client'[c]
             p == Reply(client[c].seen, client[c].hash)
  <2>1. UNCHANGED <<row, now, began>> /\ client[c].seen = row
    BY <1>1, <1>5 DEF Commit, TransactionOK
  <2>2. /\ client' = [client EXCEPT ![c] = q]
        /\ q = [[client[c] EXCEPT !.phase = p, !.response = IF p = "replay"
                                    THEN client[c].seen.response ELSE NoClient]
                  EXCEPT !.seen = NoRow, !.draft = NoRow]
    BY <1>1, <1>5 DEF Commit, Settle, Answer, TypeOK
  <2>3. p \in {"conflict", "replay", "in-progress"} /\ row \in Row /\ NoRow \in Row
    BY <1>1 DEF Reply, TypeOK, NoRow, Row
  <2>4. p = "replay" => row.status = "COMPLETED" /\ row.hash = client[c].hash
    BY <2>1 DEF Reply
  <2> HIDE DEF q, p
  <2>5. /\ q \in Client /\ q.phase = p /\ q.hash = client[c].hash /\ q.now = client[c].now
        /\ p = "replay" => q.response = row.response
    <3>1. PICK r \in Clients \union {NoClient} :
            /\ q = [[client[c] EXCEPT !.phase = p, !.response = r]
                      EXCEPT !.seen = NoRow, !.draft = NoRow]
            /\ p = "replay" => r = row.response
      BY <1>1, <2>1, <2>2, <2>3 DEF Row
    <3> QED
      BY <1>1, <2>3, <3>1 DEF Client, Phases, Answered
  <2>6. TransactionOK(c)' /\ OwnerOK(c)'
    BY <1>1, <2>1, <2>3, <2>5, IdempotencyAssumption
       DEF q, TransactionOK, OwnerOK, Owner, InTransaction
  <2>7. q.phase = "replay" =>
          \E b \in began : b.client = q.response /\ b.hash = q.hash
    <3> SUFFICES ASSUME p = "replay"
                 PROVE  \E b \in began : b.client = q.response /\ b.hash = q.hash
      BY <2>5
    <3>1. [generation |-> row.generation, client |-> row.response, hash |-> row.hash] \in began
      BY <2>4 DEF IndInv, CompletedByOwner
    <3> QED
      BY <2>4, <2>5, <3>1
  <2> QED
    BY <1>1, <1>2, <2>1, <2>2, <2>3, <2>5, <2>6, <2>7, ClientStep DEF q
<1> QED
  BY <1>3, <1>4, <1>5

\* An owner goes on to complete.
LEMMA FinishInv ==
  ASSUME IndInv, NEW c \in Clients, NEW at \in 0..now, Finish(c, at)
  PROVE  IndInv'
<1> DEFINE q == client'[c]
<1>1. /\ TypeOK /\ TransactionOK(c) /\ OwnerOK(c) /\ client[c] \in Client
      /\ client[c].phase = "started" /\ UNCHANGED <<row, lock, now, faults, began>>
      /\ client' = [client EXCEPT ![c] = q] /\ at <= now
      /\ q = [client[c] EXCEPT !.phase = "completing", !.now = at]
  BY DEF IndInv, TypeOK, Finish
<1>0. at \in Nat
  BY <1>1 DEF TypeOK
<1> HIDE DEF q
<1>2. /\ q \in Client /\ q.phase = "completing" /\ q.hash = client[c].hash /\ q.now = at
      /\ q.expiresAt = client[c].expiresAt /\ q.generation = client[c].generation
  BY <1>0, <1>1 DEF Client, Phases
<1>3. TransactionOK(c)' /\ OwnerOK(c)'
  BY <1>1, <1>2 DEF q, TransactionOK, OwnerOK, Owner, InTransaction
<1> QED
  BY <1>1, <1>2, <1>3, ClientStep DEF q, TypeOK

\* A completion stores the response of the owner, or nothing.
LEMMA CompleteInv ==
  ASSUME IndInv, NEW c \in Clients, NEW o \in Outcomes, Complete(c, o)
  PROVE  IndInv'
<1>1. /\ TypeOK /\ RowOK /\ OwnerOK(c) /\ client[c] \in Client /\ Owner(c)
      /\ client[c].phase = "completing" /\ lock = NoClient /\ lock' = NoClient
      /\ UNCHANGED <<now, began>>
  BY DEF IndInv, TypeOK, Complete, Owner
<1>2. faults' \in Nat
  BY <1>1 DEF Complete, Fault, TypeOK
<1>3. PICK q \in {IdleClient, Failed, [IdleClient EXCEPT !.phase = "completed"]} :
        client' = [client EXCEPT ![c] = q]
  BY DEF Complete
<1>4. CASE row' = row
  BY <1>1, <1>2, <1>3, <1>4, ForgetStep DEF Unlock
<1>5. CASE Owns(c) /\ row' = [row EXCEPT !.status = "COMPLETED", !.response = c]
  <2>1. /\ row' \in Row /\ row'.status = "COMPLETED" /\ row'.response = c
        /\ row'.hash = row.hash /\ row'.generation = row.generation
        /\ row'.expiresAt = row.expiresAt /\ row.status = "IN_PROGRESS"
        /\ row.hash = client[c].hash /\ row.generation = client[c].generation
    BY <1>1, <1>5 DEF TypeOK, Row, Owns
  <2>2. /\ q \in Client /\ q.phase \in {"idle", "failed", "completed"} /\ q.now = 0
        /\ client' \in [Clients -> Client] /\ client'[c] = q
        /\ \A d \in Clients \ {c} : client'[d] = client[d]
    <3>1. NoRow \in Row
      BY DEF NoRow, Row
    <3>2. q \in Client /\ q.phase \in {"idle", "failed", "completed"} /\ q.now = 0
      BY <3>1 DEF IdleClient, Failed, Client, Phases, Answered
    <3> QED
      BY <1>1, <1>3, <3>2 DEF TypeOK
  <2>3. TypeOK'
    BY <1>1, <1>2, <2>1, <2>2 DEF TypeOK
  <2>4. RowOK' /\ BeganOK' /\ OneOwnerPerGeneration'
    BY <1>1, <2>1 DEF IndInv, RowOK, BeganOK, OneOwnerPerGeneration
  <2>5. \A d \in Clients : TransactionOK(d)'
    BY <1>1, <2>1, <2>2, IdempotencyAssumption DEF IndInv, TransactionOK, InTransaction
  <2>6. \A d \in Clients : OwnerOK(d)'
    BY <1>1, <2>1, <2>2 DEF IndInv, OwnerOK, Owner, TypeOK
  <2>7. SnapshotHolds'
    BY <1>1, <2>2, IdempotencyAssumption DEF IndInv, SnapshotHolds, TransactionOK
  <2>8. CompletedByOwner'
    BY <1>1, <2>1 DEF CompletedByOwner, OwnerOK
  <2>9. ReplayIsAuthentic'
    BY <1>1, <2>2 DEF IndInv, ReplayIsAuthentic
  <2> QED
    BY <2>3, <2>4, <2>5, <2>6, <2>7, <2>8, <2>9 DEF IndInv
<1> QED
  BY <1>4, <1>5 DEF Complete

\* Every step preserves the invariant.
LEMMA StepInv == ASSUME IndInv, [Next]_vars PROVE IndInv'
<1>1. ASSUME NEW c \in Clients, Statement(c) PROVE IndInv'
  <2>1. CASE Insert(c)
    BY <2>1, InsertInv
  <2>2. CASE Select(c)
    BY <2>2, SelectInv
  <2>3. CASE Reclaim(c) \/ Keep(c)
    BY <2>3, DecideInv
  <2>4. CASE \E o \in Outcomes : Commit(c, o)
    BY <2>4, CommitInv
  <2>5. CASE \E o \in Outcomes : Complete(c, o)
    BY <2>5, CompleteInv
  <2> QED
    BY <1>1, <2>1, <2>2, <2>3, <2>4, <2>5 DEF Statement
<1>2. ASSUME NEW c \in Clients, Caller(c) PROVE IndInv'
  <2>1. CASE \E h \in Hashes, ttl \in Ttls : Call(c, h, ttl)
    BY <2>1, CallInv
  <2>2. CASE \E at \in 0..now : Finish(c, at)
    BY <2>2, FinishInv
  <2>3. CASE Return(c)
    <3>1. TransactionOK(c) /\ client[c].phase \in Answered /\ faults \in Nat
      BY <2>3 DEF Return, IndInv, TypeOK
    <3>2. Unlock(c)
      BY <2>3, <3>1 DEF Return, Unlock, TransactionOK, Answered
    <3> QED
      BY <2>3, <3>1, <3>2, ForgetStep DEF Return
  <2> QED
    BY <1>2, <2>1, <2>2, <2>3 DEF Caller
<1>3. ASSUME NEW c \in Clients, Crash(c) PROVE IndInv'
  <2>1. faults' \in Nat
    BY <1>3 DEF Crash, IndInv, TypeOK
  <2> QED
    BY <1>3, <2>1, ForgetStep DEF Crash
<1>4. CASE Tick
  <2>1. /\ UNCHANGED <<row, lock, client, faults, began>> /\ now \in Nat /\ now' = now + 1
        /\ TypeOK
    BY <1>4 DEF Tick, IndInv, TypeOK
  <2>2. now' \in Nat /\ \A n \in Nat : n <= now => n <= now'
    BY <2>1
  <2>3. \A c \in Clients : OwnerOK(c)'
    BY <2>1, <2>2 DEF IndInv, OwnerOK, Owner, TypeOK, Client
  <2> QED
    BY <2>1, <2>2, <2>3 DEF IndInv, TypeOK, RowOK, TransactionOK, BeganOK, FreshRow,
       OneOwnerPerGeneration, SnapshotHolds, CompletedByOwner, ReplayIsAuthentic
<1>5. CASE UNCHANGED vars
  BY <1>5 DEF vars, IndInv, TypeOK, RowOK, TransactionOK, OwnerOK, Owner, BeganOK, FreshRow,
     OneOwnerPerGeneration, SnapshotHolds, CompletedByOwner, ReplayIsAuthentic
<1> QED
  BY <1>1, <1>2, <1>3, <1>4, <1>5 DEF Next

-----------------------------------------------------------------------------
(* Theorems.                                                                *)

\* IndInv holds in every reachable state, for any number of clients and hashes, any
\* lifetimes of claims, crashes and failed statements.
THEOREM Invariance == Spec => []IndInv
<1>1. Init => IndInv
  BY InitInv
<1>2. IndInv /\ [Next]_vars => IndInv'
  BY StepInv
<1> QED
  BY <1>1, <1>2, PTL DEF Spec

\* Every variable keeps its type: the row, its lock and the locals of the callers.
THEOREM TypeCorrect == Spec => []TypeOK
<1>1. IndInv => TypeOK
  BY DEF IndInv
<1> QED
  BY <1>1, Invariance, PTL

\* claim hands a generation to at most one client.
THEOREM GenerationIsUnique == Spec => []OneOwnerPerGeneration
<1>1. IndInv => OneOwnerPerGeneration
  BY DEF IndInv
<1> QED
  BY <1>1, Invariance, PTL

\* Two clients never work at once under claims that have not expired: the live claim
\* is the one of the row's generation, and a generation has one owner.
THEOREM MutualExclusion == Spec => []OneLiveOwner
<1>1. IndInv => OneLiveOwner
  <2> SUFFICES ASSUME IndInv, NEW c \in Clients, NEW d \in Clients, Owner(c), Owner(d),
                      client[c].expiresAt > now, client[d].expiresAt > now
               PROVE  c = d
    BY DEF OneLiveOwner
  <2>1. OwnerOK(c) /\ OwnerOK(d) /\ now \in Nat
        /\ client[c].expiresAt \in Nat /\ client[d].expiresAt \in Nat
    BY DEF IndInv, TypeOK, Client
  <2>2. client[c].generation = row.generation /\ client[d].generation = row.generation
    BY <2>1 DEF OwnerOK
  <2>3. /\ [generation |-> row.generation, client |-> c, hash |-> client[c].hash] \in began
        /\ [generation |-> row.generation, client |-> d, hash |-> client[d].hash] \in began
    BY <2>1, <2>2 DEF OwnerOK
  <2> QED
    BY <2>3 DEF IndInv, OneOwnerPerGeneration
<1> QED
  BY <1>1, Invariance, PTL

\* complete is fenced: the stored response is the work of the row's own generation.
THEOREM CompletionIsFenced == Spec => []CompletedByOwner
<1>1. IndInv => CompletedByOwner
  BY DEF IndInv
<1> QED
  BY <1>1, Invariance, PTL

\* A replay answers the request it is a replay of.
THEOREM ReplaysAreAuthentic == Spec => []ReplayIsAuthentic
<1>1. IndInv => ReplayIsAuthentic
  BY DEF IndInv
<1> QED
  BY <1>1, Invariance, PTL

\* FOR UPDATE makes the row that claim decides on the row it found.
THEOREM SnapshotsHold == Spec => []SnapshotHolds
<1>1. IndInv => SnapshotHolds
  BY DEF IndInv
<1> QED
  BY <1>1, Invariance, PTL

\* The rows a COMMIT or a completion leaves behind.
LEMMA RowSteps ==
  ASSUME IndInv, Next, row' # row
  PROVE  \E c \in Clients :
           \/ /\ row' = FreshRow(c, row.generation + 1)
              /\ row.status = "NONE" \/ row.expiresAt <= now
           \/ Owns(c) /\ row' = [row EXCEPT !.status = "COMPLETED", !.response = c]
<1>1. PICK c \in Clients : \E o \in Outcomes :
        \/ Commit(c, o) /\ o # "not-applied" /\ client[c].draft.status # "NONE"
        \/ Complete(c, o) /\ Owns(c)
  BY DEF Next, Statement, Caller, Crash, Tick, Insert, Select, Reclaim, Keep, Call,
         Finish, Return, Commit, Complete
<1>2. CASE \E o \in Outcomes :
             Commit(c, o) /\ o # "not-applied" /\ client[c].draft.status # "NONE"
  <2>1. /\ row' = FreshRow(c, row.generation + 1)
        /\ row.status = "NONE" \/ row.expiresAt <= client[c].now
        /\ client[c].now <= now /\ client[c] \in Client /\ row \in Row /\ now \in Nat
    BY <1>2 DEF Commit, IndInv, TypeOK, TransactionOK, OwnerOK
  <2>2. row.expiresAt \in Nat /\ client[c].now \in Nat
    BY <2>1 DEF Client, Row
  <2>3. row.status = "NONE" \/ row.expiresAt <= now
    BY <2>1, <2>2
  <2> QED
    BY <2>1, <2>3
<1>3. CASE \E o \in Outcomes : Complete(c, o) /\ Owns(c)
  BY <1>3 DEF Complete
<1> QED
  BY <1>1, <1>2, <1>3

\* Generations advance one by one, and only past an expired claim.
THEOREM ReclaimOnlyExpired == Spec => NoEarlyReclaim
<1>1. IndInv /\ [Next]_vars =>
        [row.status # "NONE" /\ row'.generation # row.generation =>
           row.expiresAt <= now /\ row'.generation = row.generation + 1]_vars
  <2> SUFFICES ASSUME IndInv, Next, row.status # "NONE", row'.generation # row.generation
               PROVE  row.expiresAt <= now /\ row'.generation = row.generation + 1
    OBVIOUS
  <2>1. PICK c \in Clients :
           \/ /\ row' = FreshRow(c, row.generation + 1)
              /\ row.status = "NONE" \/ row.expiresAt <= now
           \/ Owns(c) /\ row' = [row EXCEPT !.status = "COMPLETED", !.response = c]
    BY RowSteps
  <2>2. CASE row' = [row EXCEPT !.status = "COMPLETED", !.response = c]
    BY <2>2 DEF IndInv, TypeOK, Row
  <2> QED
    BY <2>1, <2>2 DEF FreshRow
<1> QED
  BY <1>1, Invariance, PTL DEF Spec, NoEarlyReclaim

-----------------------------------------------------------------------------
(* Refinement.                                                              *)

Entry == EntryOf(row)
Answers == [c \in Clients |-> Told(client[c])]

Untold == Message("none", 0, NoHash, NoClient)

\* What one client is told is what changes.
LEMMA AnswersStep ==
  ASSUME TypeOK, NEW c \in Clients, NEW q, client' = [client EXCEPT ![c] = q]
  PROVE  Answers' = [Answers EXCEPT ![c] = Told(q)]
BY DEF Answers, TypeOK

\* A client that forgets is a step of the contract.
LEMMA ForgetRefines ==
  ASSUME TypeOK, NEW c \in Clients, NEW q, client' = [client EXCEPT ![c] = q],
         Told(q) = Untold, row' = row
  PROVE  [Contract!Next]_Contract!vars
<1>1. Answers' = [Answers EXCEPT ![c] = Untold] /\ Entry' = Entry
  BY AnswersStep DEF Entry
<1>2. Contract!Forget(c)
  BY <1>1 DEF Contract!Forget, Contract!Tell, Contract!Nothing, Contract!Message, Message, Untold, Answers, Entry, EntryOf
<1> QED
  BY <1>2 DEF Contract!Next

\* A step that tells its client nothing new is a stutter.
LEMMA QuietRefines ==
  ASSUME TypeOK, NEW c \in Clients, NEW q, client' = [client EXCEPT ![c] = q],
         Told(q) = Told(client[c]), row' = row
  PROVE  UNCHANGED Contract!vars
<1>1. Answers' = Answers /\ Entry' = Entry
  BY AnswersStep DEF Answers, Entry
<1> QED
  BY <1>1 DEF Contract!vars, Answers, Entry, EntryOf

\* COMMIT is the moment at which a claim takes effect: what it then tells was true of
\* the row it kept locked.
LEMMA CommitRefines ==
  ASSUME IndInv, NEW c \in Clients, NEW o \in Outcomes, Commit(c, o)
  PROVE  [Contract!Next]_Contract!vars
<1> DEFINE h == client[c].hash
<1>1. /\ TypeOK /\ TransactionOK(c) /\ client[c] \in Client /\ h \in Hashes /\ row \in Row
      /\ client[c].phase = "committing" /\ RowOK
  BY DEF IndInv, TypeOK, Commit, TransactionOK, InTransaction
<1>2. Told(Failed) = Untold
  BY DEF Told, Failed, IdleClient, Untold
<1>3. CASE o # "ok" /\ ~(o # "not-applied" /\ client[c].draft.status # "NONE")
  BY <1>1, <1>2, <1>3, ForgetRefines DEF Commit
<1>4. CASE o # "not-applied" /\ client[c].draft.status # "NONE"
  <2>1. /\ row' = FreshRow(c, row.generation + 1) /\ row.generation \in Nat
        /\ client[c].draft.generation = row.generation + 1
    BY <1>1, <1>4 DEF Commit, TransactionOK, FreshRow, Row
  <2>2. Entry' = [status |-> "in-progress", generation |-> row.generation + 1,
                  hash |-> h, response |-> NoClient]
    BY <2>1 DEF Entry, EntryOf, StatusOf, FreshRow
  <2>3. CASE o = "ok"
    <3>1. client' = [client EXCEPT ![c] = Settle(Answer(client[c]))]
      BY <1>1, <2>3 DEF Commit
    <3>2. Told(Settle(Answer(client[c]))) = Message("started", row.generation + 1, h, NoClient)
      BY <1>1, <1>4, <2>1 DEF Told, Settle, Answer, Client
    <3>3. Answers' = [Answers EXCEPT ![c] = Message("started", row.generation + 1, h, NoClient)]
      BY <1>1, <3>1, <3>2, AnswersStep
    <3>4. Contract!Started(c, h)
      BY <2>2, <3>3
         DEF Contract!Started, Contract!Message, Message, StatusOf, Contract!NextEntry, Contract!Tell, Entry, EntryOf, Answers
    <3> QED
      BY <1>1, <3>4 DEF Contract!Next
  <2>4. CASE o # "ok"
    <3>1. Answers' = Answers
      <4>1. Answers' = [Answers EXCEPT ![c] = Untold]
        BY <1>1, <1>2, <2>4, AnswersStep DEF Commit
      <4>2. Answers[c] = Untold
        BY <1>1 DEF Answers, Told, Untold
      <4> QED
        BY <4>1, <4>2 DEF Answers
    <3>2. Contract!StartedUnheard(h)
      BY <2>2, <3>1
         DEF Contract!StartedUnheard, Contract!NextEntry, Entry, EntryOf, Answers
    <3> QED
      BY <1>1, <3>2 DEF Contract!Next
  <2> QED
    BY <2>3, <2>4
<1>5. CASE o = "ok" /\ client[c].draft.status = "NONE"
  <2> DEFINE p == Reply(row, h)
  <2>1. /\ client[c].seen = row /\ row.status # "NONE" /\ row' = row
        /\ row.generation > 0
        /\ client' = [client EXCEPT ![c] = Settle(Answer(client[c]))]
    BY <1>1, <1>5 DEF Commit, TransactionOK, RowOK
  <2>2. /\ p \in {"conflict", "replay", "in-progress"}
        /\ p = "conflict" => row.hash # h
        /\ p = "replay" => row.hash = h /\ row.status = "COMPLETED"
        /\ p = "in-progress" => row.hash = h /\ row.status # "COMPLETED"
    BY DEF Reply
  <2>3. Told(Settle(Answer(client[c]))) =
          Message(p, 0, h, IF p = "replay" THEN row.response ELSE NoClient)
    <3>1. Answer(client[c]) =
            [client[c] EXCEPT !.phase = p,
                              !.response = IF p = "replay" THEN row.response ELSE NoClient]
      BY <1>5, <2>1 DEF Answer
    <3> HIDE DEF p
    <3> QED
      BY <1>1, <2>2, <3>1 DEF Told, Settle, Client
  <2>4. Answers' = [Answers EXCEPT ![c] =
          Message(p, 0, h, IF p = "replay" THEN row.response ELSE NoClient)]
    BY <1>1, <2>1, <2>3, AnswersStep
  <2>5. Entry' = Entry
    BY <2>1 DEF Entry
  <2>9. /\ StatusOf(row) # "none"
        /\ row.status # "COMPLETED" => StatusOf(row) = "in-progress"
    BY <1>1, <2>1 DEF StatusOf, Row
  <2> HIDE DEF p
  <2>6. CASE p = "conflict"
    <3>1. Contract!Conflict(c, h)
      BY <2>2, <2>4, <2>5, <2>6, <2>9
         DEF Contract!Conflict, Contract!Message, Message, Contract!Tell, Entry, EntryOf, Answers
    <3> QED
      BY <1>1, <3>1 DEF Contract!Next
  <2>7. CASE p = "replay"
    <3>1. Contract!Replay(c, h)
      BY <2>1, <2>2, <2>4, <2>5, <2>7
         DEF Contract!Replay, Contract!Message, Message, StatusOf, Contract!Tell, Entry, EntryOf, Answers
    <3> QED
      BY <1>1, <3>1 DEF Contract!Next
  <2>8. CASE p = "in-progress"
    <3>1. Contract!InProgress(c, h)
      BY <2>2, <2>4, <2>5, <2>8, <2>9
         DEF Contract!InProgress, Contract!Message, Message, Contract!Tell, Entry, EntryOf, Answers
    <3> QED
      BY <1>1, <3>1 DEF Contract!Next
  <2> QED
    BY <2>2, <2>6, <2>7, <2>8
<1> QED
  BY <1>3, <1>4, <1>5

\* A completion is a step of the contract or a stutter.
LEMMA CompleteRefines ==
  ASSUME IndInv, NEW c \in Clients, NEW o \in Outcomes, Complete(c, o)
  PROVE  [Contract!Next]_Contract!vars
<1>1. /\ TypeOK /\ client[c] \in Client /\ row \in Row /\ client[c].phase = "completing"
  BY DEF IndInv, TypeOK, Complete
<1>2. PICK q : client' = [client EXCEPT ![c] = q] /\ Told(q) = Untold
  <2>1. /\ Told(Failed) = Untold
        /\ Told([IdleClient EXCEPT !.phase = "completed"]) = Untold
    BY DEF Told, Failed, IdleClient, Untold
  <2> QED
    BY <2>1 DEF Complete
<1>3. CASE row' = row
  BY <1>1, <1>2, <1>3, ForgetRefines
<1>4. CASE Owns(c) /\ row' = [row EXCEPT !.status = "COMPLETED", !.response = c]
  <2>1. Answers' = [Answers EXCEPT ![c] = Untold]
    BY <1>1, <1>2, AnswersStep
  <2>2. Entry' = [status |-> "completed", generation |-> row.generation,
                  hash |-> row.hash, response |-> c]
    <3>1. /\ row'.status = "COMPLETED" /\ row'.response = c /\ row'.hash = row.hash
          /\ row'.generation = row.generation
      BY <1>1, <1>4 DEF Row
    <3>2. StatusOf(row') = "completed"
      BY <3>1 DEF StatusOf
    <3> QED
      BY <3>1, <3>2 DEF Entry, EntryOf
  <2>3. /\ Answers[c].kind = "started" /\ Answers[c].generation = row.generation
        /\ Answers[c].hash = row.hash /\ Entry.status = "in-progress"
    BY <1>1, <1>4 DEF Answers, Told, Message, Owns, Entry, EntryOf, StatusOf
  <2>4. Contract!Complete(c)
    BY <2>1, <2>2, <2>3 DEF Contract!Complete, Contract!Tell, Contract!Nothing, Contract!Message, Message, Untold,
                            Entry, EntryOf, Answers
  <2> QED
    BY <2>4 DEF Contract!Next
<1> QED
  BY <1>3, <1>4 DEF Complete

\* Every step is a step of the contract or a stutter.
LEMMA StepRefines ==
  ASSUME IndInv, [Next]_vars PROVE [Contract!Next]_Contract!vars
<1> USE DEF IndInv
<1>1. ASSUME NEW c \in Clients, Statement(c) PROVE [Contract!Next]_Contract!vars
  <2>1. CASE \E o \in Outcomes : Commit(c, o)
    BY <2>1, CommitRefines
  <2>2. CASE \E o \in Outcomes : Complete(c, o)
    BY <2>2, CompleteRefines
  <2>3. CASE Insert(c) \/ Select(c) \/ Reclaim(c) \/ Keep(c)
    <3>1. PICK q : client' = [client EXCEPT ![c] = q] /\ q.phase \in InTransaction
      <4>1. CASE Write(c, NoRow) \/ (\E g : Write(c, FreshRow(c, g)))
        <5>1. PICK r : client' = [client EXCEPT ![c].phase = "committing", ![c].draft = r]
          BY <4>1 DEF Write
        <5> DEFINE q == [client[c] EXCEPT !.phase = "committing", !.draft = r]
        <5>2. client' = [client EXCEPT ![c] = q] /\ q.phase = "committing"
          BY <5>1 DEF TypeOK, Client
        <5> QED
          BY <5>2 DEF InTransaction
      <4>2. CASE client' = [client EXCEPT ![c].phase = "selecting"]
        <5> DEFINE q == [client[c] EXCEPT !.phase = "selecting"]
        <5>1. client' = [client EXCEPT ![c] = q] /\ q.phase = "selecting"
          BY <4>2 DEF TypeOK, Client
        <5> QED
          BY <5>1 DEF InTransaction
      <4>3. CASE client' = [client EXCEPT ![c].phase = "selected", ![c].seen = row]
        <5> DEFINE q == [client[c] EXCEPT !.phase = "selected", !.seen = row]
        <5>1. client' = [client EXCEPT ![c] = q] /\ q.phase = "selected"
          BY <4>3 DEF TypeOK, Client
        <5> QED
          BY <5>1 DEF InTransaction
      <4> QED
        BY <2>3, <4>1, <4>2, <4>3 DEF Insert, Select, Reclaim, Keep
    <3>2. client[c].phase \in InTransaction /\ row' = row
      BY <2>3 DEF Insert, Select, Reclaim, Keep, InTransaction
    <3>3. Told(q) = Told(client[c])
      BY <3>1, <3>2 DEF Told, InTransaction
    <3> QED
      BY <3>1, <3>2, <3>3, QuietRefines
  <2> QED
    BY <1>1, <2>1, <2>2, <2>3 DEF Statement
<1>2. ASSUME NEW c \in Clients, Caller(c) PROVE [Contract!Next]_Contract!vars
  <2>1. CASE \E h \in Hashes, ttl \in Ttls : Call(c, h, ttl)
    <3>1. PICK q : /\ client' = [client EXCEPT ![c] = q] /\ q.phase = "inserting"
                   /\ client[c].phase = "idle" /\ row' = row
      BY <2>1 DEF Call, IdleClient
    <3> QED
      BY <3>1, QuietRefines DEF Told
  <2>2. CASE \E at \in 0..now : Finish(c, at)
    <3>1. PICK at \in 0..now : Finish(c, at)
      BY <2>2
    <3> DEFINE q == [client[c] EXCEPT !.phase = "completing", !.now = at]
    <3>2. /\ client' = [client EXCEPT ![c] = q] /\ q.phase = "completing"
          /\ q.generation = client[c].generation /\ q.hash = client[c].hash
          /\ client[c].phase = "started" /\ row' = row
      BY <3>1 DEF Finish, TypeOK, Client
    <3>3. Told(q) = Told(client[c])
      BY <3>2 DEF Told
    <3> HIDE DEF q
    <3> QED
      BY <3>2, <3>3, QuietRefines
  <2>3. CASE Return(c)
    BY <2>3, ForgetRefines DEF Return, Told, IdleClient, Untold
  <2> QED
    BY <1>2, <2>1, <2>2, <2>3 DEF Caller
<1>3. ASSUME NEW c \in Clients, Crash(c) PROVE [Contract!Next]_Contract!vars
  BY <1>3, ForgetRefines DEF Crash, Told, IdleClient, Untold
<1>4. CASE client' = client /\ row' = row
  BY <1>4 DEF Contract!vars
<1> QED
  BY <1>1, <1>2, <1>3, <1>4 DEF Next, Tick, vars

\* claim's three statements and complete's one implement the contract: each claim is
\* one atomic look at the key, taken when it commits.
THEOREM StoreImplementsContract == Spec => ImplementsContract
<1>1. Init => Contract!Init
  <2> SUFFICES ASSUME Init PROVE Contract!Init
    OBVIOUS
  <2>1. \A c \in Clients : Told(client[c]) = Untold
    BY DEF Init, IdleClient, Told, Untold
  <2>2. Entry = [status |-> "none", generation |-> 0, hash |-> NoHash, response |-> NoClient]
    BY DEF Init, NoRow, Entry, EntryOf, StatusOf
  <2> QED
    BY <2>1, <2>2 DEF Contract!Init, Contract!NoEntry, Contract!Nothing, Contract!Message, Message, Untold, Entry, EntryOf
<1>2. IndInv /\ [Next]_vars => [Contract!Next]_Contract!vars
  BY StepRefines
<1> QED
  BY <1>1, <1>2, Invariance, PTL DEF Spec, ImplementsContract, Contract!Spec
=============================================================================
