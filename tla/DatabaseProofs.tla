--------------------------- MODULE DatabaseProofs ---------------------------
(***************************************************************************)
(* Theorems about Database, for any number of calls, connections, releases *)
(* and faults: the pool, transaction() and migrate().                      *)
(***************************************************************************)
EXTENDS Database, FiniteSetTheorems, NaturalsInduction, WellFoundedInduction, TLAPS

\* What every connection of the server is like.
ConnectionOK(s) ==
  /\ s.client = "none" => ~s.up
  /\ s.client = "idle" => s.tx = "none" /\ ~s.lock
  /\ s.tx = "none" => s.writes = {} /\ s.ran = {} /\ s.recorded = {}

\* A connection is in use exactly while one call has it.
Owned ==
  /\ \A c \in Calls : call[c].connection \in Connections => Mine(c).client = "busy"
  /\ \A c, d \in Calls :
       call[c].connection \in Connections /\ call[c].connection = call[d].connection => c = d
  /\ \A k \in Connections :
       connection[k].client = "busy" => \E c \in Calls : call[c].connection = k

OneLock == \A j, k \in Connections : connection[j].lock /\ connection[k].lock => j = k

\* Where a call has a connection, and what it may be doing.
PhaseOK(c) ==
  LET l == call[c] IN
  /\ l.phase \in {"idle", "connecting"} <=> l.connection \notin Connections
  /\ l.phase = "idle" <=> l.kind = "none"
  /\ l.phase \in {"idle", "connecting"} => rows[c] = {} /\ ~l.ok /\ ~l.destroy /\ l.done = 0
  /\ l.kind = "transaction" =>
       l.phase \in {"connecting", "beginning", "working", "rolling-back", "releasing"}
  /\ l.kind = "migrate" => l.phase \notin {"idle", "beginning", "working"}
  /\ l.phase = "releasing" /\ ~l.destroy /\ Mine(c).up => Mine(c).tx = "none" /\ ~Mine(c).lock

\* transaction(): what it wrote so far is in the open transaction of its connection.
TransactionOK(c) ==
  LET l == call[c]  s == Mine(c) IN
  l.kind = "transaction" =>
    /\ rows[c] \in {{}, {1, 2}}
    /\ l.phase # "connecting" => ~s.lock
    /\ l.phase = "beginning" => s.tx = "none" /\ l.done = 0
    /\ l.phase \in {"beginning", "working"} => rows[c] = {}
    /\ l.phase # "releasing" => ~l.ok
    /\ l.phase = "working" /\ s.up => s.tx = "open" /\ s.writes = 1..l.done
    /\ l.phase = "releasing" /\ l.ok => rows[c] = {1, 2}

Looping == {"looping", "running", "recording", "committing"}

\* migrate(): while its link works it has the lock, and while it has the lock nobody else
\* changes the history it has seen; its transaction holds the current migration.
MigrationOK(c) ==
  LET l == call[c]  s == Mine(c) IN
  l.kind = "migrate" =>
    /\ rows[c] = {}
    /\ l.phase = "locking" => ~s.lock
    /\ l.phase \in {"locking", "reading", "looping", "unlocking"} => s.tx = "none"
    /\ l.phase \in Looping \union {"reading"} /\ s.up => s.lock
    /\ l.phase \in Looping \union {"locking", "reading"} => ~l.ok
    /\ l.phase \in Looping =>
         /\ s.lock => l.seen = applied
         /\ \A v \in Versions : l.seen[v] # NoText => l.release[v] # NoText
    /\ l.phase \in Looping \ {"looping"} =>
         /\ Pending(c) # {} /\ IsNew(c, Current(c))
         /\ s.up => /\ s.tx = "open"
                    /\ s.ran = IF l.phase = "running" THEN {} ELSE {Current(c)}
                    /\ s.recorded = IF l.phase = "committing" THEN {Current(c)} ELSE {}

CallOK(c) == PhaseOK(c) /\ TransactionOK(c) /\ MigrationOK(c)

IndInv ==
  /\ DatabaseTypeOK
  /\ SchemaMatchesHistory
  /\ Owned /\ OneLock
  /\ \A k \in Connections : ConnectionOK(connection[k])
  /\ \A c \in Calls : CallOK(c)

-----------------------------------------------------------------------------
(* Lemmas about the operators.                                             *)

\* Every set of natural numbers that is not empty has a least one.
LEMMA LeastNatural ==
  ASSUME NEW S \in SUBSET Nat, S # {}
  PROVE  \E n \in S : \A m \in S : n <= m
<1> DEFINE R == {p \in Nat \X Nat : p[1] < p[2]}
<1>1. OpToRel(<, Nat) = R
  BY DEF OpToRel
<1>2. IsWellFoundedOn(R, Nat)
  BY <1>1, NatLessThanWellFounded
<1>3. PICK n \in S : \A m \in S : ~(<<m, n>> \in R)
  <2> HIDE DEF R
  <2> QED
    BY <1>2, WFMin
<1>4. ASSUME NEW m \in S PROVE n <= m
  <2>1. m \in Nat /\ n \in Nat /\ <<m, n>> \in Nat \X Nat
    OBVIOUS
  <2>2. ~(m < n)
    BY <1>3, <2>1
  <2> QED
    BY <2>1, <2>2
<1> QED
  BY <1>4

\* A pending migration is first in the order of versions.
LEMMA CurrentIsPending ==
  ASSUME NEW c \in Calls, Pending(c) # {}
  PROVE  Current(c) \in Pending(c)
<1>1. Pending(c) \in SUBSET Nat
  BY DatabaseAssumption DEF Pending, Versions
<1> QED
  BY <1>1, LeastNatural DEF Current

\* The text of a migration is one of those that are known.
LEMMA ReleaseTexts ==
  ASSUME NEW c \in Calls, call[c] \in Call, NEW v \in Versions
  PROVE  call[c].release[v] \in Texts
<1>1. CASE call[c].release \in Releases
  BY <1>1 DEF Texts
<1>2. CASE call[c].release = [w \in Versions |-> NoText]
  BY <1>2 DEF Texts
<1> QED
  BY <1>1, <1>2 DEF Call

\* The types of the records, field by field.
LEMMA CallFields ==
  ASSUME NEW l \in Call
  PROVE  /\ l.connection \in Connections \union {NoConnection} /\ l.phase \in Phases
         /\ l.ok \in BOOLEAN /\ l.destroy \in BOOLEAN /\ l.done \in 0..2
         /\ l.kind \in {"none", "transaction", "migrate"}
         /\ l.release \in Releases \union {NoneApplied} /\ l.seen \in [Versions -> Texts]
BY DEF Call, NoneApplied

LEMMA ConnectionFields ==
  ASSUME NEW s \in Connection
  PROVE  /\ s.client \in {"none", "idle", "busy"} /\ s.up \in BOOLEAN /\ s.session \in BOOLEAN
         /\ s.tx \in {"none", "open", "aborted"} /\ s.lock \in BOOLEAN
         /\ s.writes \in SUBSET {1, 2} /\ s.ran \in SUBSET Versions
         /\ s.recorded \in SUBSET Versions
BY DEF Connection

-----------------------------------------------------------------------------
(* Steps of one call on the connection it has.                             *)

\* The pending migrations depend on the release and on what was seen of the history.
LEMMA SamePending ==
  ASSUME NEW c \in Calls, call'[c].release = call[c].release, call'[c].seen = call[c].seen
  PROVE  /\ Pending(c)' = Pending(c) /\ Current(c)' = Current(c)
         /\ IsNew(c, Current(c))' <=> IsNew(c, Current(c))
<1>1. Pending(c)' = Pending(c)
  BY DEF Pending
<1>2. Current(c)' = Current(c)
  BY <1>1 DEF Current
<1> QED
  BY <1>1, <1>2 DEF IsNew

\* A call that does not take part in a step: the history it has seen is safe, if it has the
\* lock.
LEMMA OtherCall ==
  ASSUME IndInv, NEW d \in Calls, call'[d] = call[d], rows'[d] = rows[d],
         call[d].connection \in Connections => Mine(d)' = Mine(d),
         call[d].connection \in Connections => applied' = applied \/ ~Mine(d).lock
  PROVE  CallOK(d)'
<1>1. CallOK(d)
  BY DEF IndInv
<1>2. CASE call[d].connection \in Connections
  <2>1. PhaseOK(d)' /\ TransactionOK(d)'
    BY <1>1, <1>2 DEF CallOK, PhaseOK, TransactionOK
  <2>2. /\ Pending(d)' = Pending(d) /\ Current(d)' = Current(d)
        /\ IsNew(d, Current(d))' <=> IsNew(d, Current(d))
    BY SamePending
  <2>3. MigrationOK(d)'
    BY <1>1, <1>2, <2>2 DEF CallOK, MigrationOK
  <2> QED
    BY <2>1, <2>3 DEF CallOK
<1>3. CASE call[d].connection \notin Connections
  <2>1. /\ call[d].phase \in {"idle", "connecting"}
        /\ call[d].kind # "none" => call[d].phase = "connecting"
    BY <1>1, <1>3 DEF CallOK, PhaseOK
  <2>2. PhaseOK(d)'
    BY <1>1, <1>3, <2>1 DEF CallOK, PhaseOK
  <2>3. TransactionOK(d)'
    BY <1>1, <2>1 DEF CallOK, TransactionOK
  <2>4. MigrationOK(d)'
    BY <1>1, <2>1 DEF CallOK, MigrationOK, Looping
  <2> QED
    BY <2>2, <2>3, <2>4 DEF CallOK
<1> QED
  BY <1>2, <1>3

\* What a step of the call must guarantee for the invariant to go on holding: it keeps its
\* connection, takes the lock only when it is free, and changes the history only while it
\* holds the lock.
LEMMA StepOnConnection ==
  ASSUME IndInv, NEW c \in Calls, NEW l \in Call, NEW s \in Connection,
         NEW w \in SUBSET {1, 2},
         call[c].connection \in Connections, l.connection = call[c].connection,
         call' = [call EXCEPT ![c] = l],
         connection' = [connection EXCEPT ![call[c].connection] = s],
         rows' = [rows EXCEPT ![c] = w],
         faults' \in 0..MaxFaults,
         s.client = "busy", ConnectionOK(s),
         s.lock => Mine(c).lock \/ LockIsFree,
         (UNCHANGED <<applied, schema>>) \/ Mine(c).lock,
         applied' \in [Versions -> Texts], schema' \in [Versions -> 0..1],
         SchemaMatchesHistory', CallOK(c)'
  PROVE  IndInv'
<1> DEFINE k == call[c].connection
<1>1. /\ call \in [Calls -> Call] /\ connection \in [Connections -> Connection]
      /\ rows \in [Calls -> SUBSET {1, 2}]
  BY DEF IndInv, DatabaseTypeOK
<1>2. /\ call'[c] = l /\ \A d \in Calls \ {c} : call'[d] = call[d] /\ rows'[d] = rows[d]
      /\ connection'[k] = s /\ \A j \in Connections \ {k} : connection'[j] = connection[j]
      /\ \A d \in Calls : call'[d].connection = call[d].connection
  BY <1>1
<1>3. DatabaseTypeOK'
  BY <1>1 DEF DatabaseTypeOK
<1>4. Owned'
  <2> USE DEF Owned, Mine
  <2>1. Owned
    BY DEF IndInv
  <2> QED
    BY <1>1, <1>2, <2>1
<1>5. OneLock'
  BY <1>1, <1>2 DEF IndInv, OneLock, Mine, LockIsFree
<1>6. ASSUME NEW j \in Connections PROVE ConnectionOK(connection[j])'
  BY <1>2 DEF IndInv, ConnectionOK
<1>7. ASSUME NEW d \in Calls PROVE CallOK(d)'
  <2>1. CASE d = c
    BY <2>1
  <2>2. CASE d # c
    <3>1. call'[d] = call[d] /\ rows'[d] = rows[d]
      BY <1>2, <2>2
    <3>2. ASSUME call[d].connection \in Connections
          PROVE  Mine(d)' = Mine(d) /\ (applied' = applied \/ ~Mine(d).lock)
      <4>1. call[d].connection # k
        BY <2>2, <3>2 DEF IndInv, Owned
      <4> QED
        BY <1>2, <2>2, <3>1, <3>2, <4>1 DEF IndInv, OneLock, Mine
    <3> QED
      BY <3>1, <3>2, OtherCall
  <2> QED
    BY <2>1, <2>2
<1> QED
  BY <1>3, <1>4, <1>5, <1>6, <1>7 DEF IndInv

\* A call that has a connection, and what its step makes of both.
LEMMA After ==
  ASSUME IndInv, NEW c \in Calls, NEW l \in Call, NEW s \in Connection,
         call[c].connection \in Connections, l.connection = call[c].connection,
         call' = [call EXCEPT ![c] = l],
         connection' = [connection EXCEPT ![call[c].connection] = s]
  PROVE  call'[c] = l /\ Mine(c)' = s
BY DEF IndInv, DatabaseTypeOK, Mine

\* The same for a step that leaves alone what is stored.
LEMMA QuietStep ==
  ASSUME IndInv, NEW c \in Calls, NEW l \in Call, NEW s \in Connection,
         call[c].connection \in Connections, l.connection = call[c].connection,
         call' = [call EXCEPT ![c] = l],
         connection' = [connection EXCEPT ![call[c].connection] = s],
         UNCHANGED stored,
         faults' \in 0..MaxFaults,
         s.client = "busy", ConnectionOK(s),
         s.lock => Mine(c).lock \/ LockIsFree,
         CallOK(c)'
  PROVE  IndInv'
<1> DEFINE w == rows[c]
<1>1. /\ rows' = [rows EXCEPT ![c] = w] /\ w \in SUBSET {1, 2}
      /\ UNCHANGED <<applied, schema>>
      /\ applied' \in [Versions -> Texts] /\ schema' \in [Versions -> 0..1]
      /\ SchemaMatchesHistory'
  BY DEF IndInv, DatabaseTypeOK, stored, SchemaMatchesHistory
<1> HIDE DEF w
<1> QED
  BY <1>1, StepOnConnection

\* A call between its first query and the return of its connection.
LEMMA Busy ==
  ASSUME IndInv, NEW c \in Calls, call[c].phase \notin {"idle", "connecting"}
  PROVE  /\ call[c] \in Call /\ call[c].connection \in Connections
         /\ Mine(c) \in Connection /\ Mine(c).client = "busy" /\ ConnectionOK(Mine(c))
         /\ PhaseOK(c) /\ TransactionOK(c) /\ MigrationOK(c)
         /\ call[c].kind \in {"transaction", "migrate"}
<1>1. call[c] \in Call /\ CallOK(c)
  BY DEF IndInv, DatabaseTypeOK
<1>2. call[c].connection \in Connections
  BY <1>1 DEF CallOK, PhaseOK
<1>3. Mine(c) \in Connection /\ Mine(c).client = "busy" /\ ConnectionOK(Mine(c))
  BY <1>1, <1>2 DEF IndInv, DatabaseTypeOK, Owned, Mine
<1>4. call[c].kind \in {"transaction", "migrate"}
  BY <1>1, CallFields DEF CallOK, PhaseOK
<1> QED
  BY <1>1, <1>2, <1>3, <1>4 DEF CallOK

\* An answered query that changes only the transaction of its connection, or its lock.
LEMMA Answered ==
  ASSUME IndInv, NEW c \in Calls, call[c].phase \notin {"idle", "connecting"},
         NEW s, Query(c, s)
  PROVE  /\ Mine(c).up
         /\ connection' = [connection EXCEPT ![call[c].connection] = s]
         /\ faults' \in 0..MaxFaults
BY DEF Query, Serve, IndInv, DatabaseTypeOK

\* A failed query leaves the connection in use, its lock and its link as they were.
LEMMA Failed ==
  ASSUME IndInv, NEW c \in Calls, call[c].phase \notin {"idle", "connecting"}, QueryFails(c)
  PROVE  \E s \in Connection :
           /\ connection' = [connection EXCEPT ![call[c].connection] = s]
           /\ faults' \in 0..MaxFaults
           /\ s.client = "busy" /\ ConnectionOK(s)
           /\ s.lock = Mine(c).lock /\ s.up = Mine(c).up
           /\ Mine(c).tx = "none" => s.tx = "none"
<1> DEFINE t == [Mine(c) EXCEPT !.tx = IF @ = "open" THEN "aborted" ELSE @]
<1>1. Mine(c) \in Connection /\ Mine(c).client = "busy" /\ ConnectionOK(Mine(c))
  BY Busy
<1>2. CASE UNCHANGED <<connection, faults>>
  <2>1. connection' = [connection EXCEPT ![call[c].connection] = Mine(c)]
    BY <1>2 DEF IndInv, DatabaseTypeOK, Mine
  <2>2. faults' \in 0..MaxFaults
    BY <1>2 DEF IndInv, DatabaseTypeOK
  <2> QED
    BY <1>1, <2>1, <2>2
<1>3. CASE Fault /\ Serve(c, t)
  <2>1. /\ t \in Connection /\ t.client = "busy" /\ t.lock = Mine(c).lock /\ t.up = Mine(c).up
        /\ Mine(c).tx = "none" => t.tx = "none"
        /\ t.tx = "none" => Mine(c).tx = "none"
        /\ t.writes = Mine(c).writes /\ t.ran = Mine(c).ran /\ t.recorded = Mine(c).recorded
    BY <1>1 DEF Connection
  <2>2. ConnectionOK(t)
    BY <1>1, <2>1 DEF ConnectionOK
  <2>3. /\ connection' = [connection EXCEPT ![call[c].connection] = t]
        /\ faults' \in 0..MaxFaults
    BY <1>3, DatabaseAssumption DEF Serve, Fault, IndInv, DatabaseTypeOK
  <2> HIDE DEF t
  <2> QED
    BY <2>1, <2>2, <2>3
<1> QED
  BY <1>2, <1>3 DEF QueryFails

-----------------------------------------------------------------------------
(* transaction() preserves the invariant.                                  *)

LEMMA BeginInv == ASSUME IndInv, NEW c \in Calls, Begin(c) PROVE IndInv'
<1> DEFINE l == [call[c] EXCEPT !.phase = "working"]
           s == [Mine(c) EXCEPT !.tx = "open"]
<1>1. call[c].phase = "beginning" /\ call[c].kind = "transaction" /\ UNCHANGED stored
  BY DEF Begin, At
<1>2. /\ call[c] \in Call /\ call[c].connection \in Connections /\ Mine(c) \in Connection
      /\ Mine(c).client = "busy" /\ ConnectionOK(Mine(c))
      /\ PhaseOK(c) /\ TransactionOK(c)
  BY <1>1, Busy
<1>3. /\ l \in Call /\ l.connection = call[c].connection /\ l.phase = "working"
      /\ l.kind = "transaction" /\ l.ok = call[c].ok /\ l.done = call[c].done
  BY <1>1, <1>2 DEF Call, Phases
<1>4. /\ s \in Connection /\ s.client = "busy" /\ s.lock = Mine(c).lock /\ s.tx = "open"
      /\ s.writes = Mine(c).writes
  BY <1>2 DEF Connection
<1>5. /\ call' = [call EXCEPT ![c] = l]
      /\ connection' = [connection EXCEPT ![call[c].connection] = s] /\ faults' \in 0..MaxFaults
  BY <1>1, Answered DEF Begin, Goto
<1> HIDE DEF l, s
<1>6. call'[c] = l /\ Mine(c)' = s /\ rows'[c] = rows[c]
  BY <1>1, <1>2, <1>3, <1>4, <1>5, After DEF stored
<1>7. l.done = 0 /\ s.writes = {} /\ 1..0 = {}
  BY <1>1, <1>2, <1>3, <1>4 DEF TransactionOK, ConnectionOK
<1>8. PhaseOK(c)' /\ TransactionOK(c)' /\ MigrationOK(c)'
  BY <1>1, <1>2, <1>3, <1>4, <1>6, <1>7 DEF PhaseOK, TransactionOK, MigrationOK
<1>9. ConnectionOK(s)
  BY <1>4 DEF ConnectionOK
<1> QED
  BY <1>1, <1>2, <1>3, <1>4, <1>5, <1>8, <1>9, QuietStep DEF CallOK

LEMMA BeginFailsInv == ASSUME IndInv, NEW c \in Calls, BeginFails(c) PROVE IndInv'
<1> DEFINE l == [call[c] EXCEPT !.phase = "releasing"]
<1>1. call[c].phase = "beginning" /\ call[c].kind = "transaction" /\ UNCHANGED stored
  BY DEF BeginFails, At
<1>2. /\ call[c] \in Call /\ call[c].connection \in Connections
      /\ PhaseOK(c) /\ TransactionOK(c)
  BY <1>1, Busy
<1>3. /\ l \in Call /\ l.connection = call[c].connection /\ l.phase = "releasing"
      /\ l.kind = "transaction" /\ l.ok = call[c].ok
      /\ call' = [call EXCEPT ![c] = l]
  BY <1>1, <1>2 DEF Call, Phases, BeginFails, Goto
<1> HIDE DEF l
<1>4. PICK s \in Connection :
        /\ connection' = [connection EXCEPT ![call[c].connection] = s]
        /\ faults' \in 0..MaxFaults
        /\ s.client = "busy" /\ ConnectionOK(s)
        /\ s.lock = Mine(c).lock /\ s.up = Mine(c).up
        /\ Mine(c).tx = "none" => s.tx = "none"
  BY <1>1, Failed DEF BeginFails
<1>5. call'[c] = l /\ Mine(c)' = s /\ rows'[c] = rows[c]
  BY <1>1, <1>2, <1>3, <1>4, After DEF stored
<1>6. PhaseOK(c)' /\ TransactionOK(c)' /\ MigrationOK(c)'
  BY <1>1, <1>2, <1>3, <1>4, <1>5 DEF PhaseOK, TransactionOK, MigrationOK
<1> QED
  BY <1>1, <1>2, <1>3, <1>4, <1>6, QuietStep DEF CallOK

LEMMA WorkFailsInv == ASSUME IndInv, NEW c \in Calls, WorkFails(c) PROVE IndInv'
<1> DEFINE l == [call[c] EXCEPT !.phase = "rolling-back"]
<1>1. call[c].phase = "working" /\ call[c].kind = "transaction" /\ UNCHANGED stored
  BY DEF WorkFails, At
<1>2. /\ call[c] \in Call /\ call[c].connection \in Connections
      /\ PhaseOK(c) /\ TransactionOK(c)
  BY <1>1, Busy
<1>3. /\ l \in Call /\ l.connection = call[c].connection /\ l.phase = "rolling-back"
      /\ l.kind = "transaction" /\ l.ok = call[c].ok
      /\ call' = [call EXCEPT ![c] = l]
  BY <1>1, <1>2 DEF Call, Phases, WorkFails, Goto, AfterError
<1> HIDE DEF l
<1>4. PICK s \in Connection :
        /\ connection' = [connection EXCEPT ![call[c].connection] = s]
        /\ faults' \in 0..MaxFaults
        /\ s.client = "busy" /\ ConnectionOK(s)
        /\ s.lock = Mine(c).lock /\ s.up = Mine(c).up
        /\ Mine(c).tx = "none" => s.tx = "none"
  BY <1>1, Failed DEF WorkFails
<1>5. call'[c] = l /\ Mine(c)' = s /\ rows'[c] = rows[c]
  BY <1>1, <1>2, <1>3, <1>4, After DEF stored
<1>6. PhaseOK(c)' /\ TransactionOK(c)' /\ MigrationOK(c)'
  BY <1>1, <1>2, <1>3, <1>4, <1>5 DEF PhaseOK, TransactionOK, MigrationOK
<1> QED
  BY <1>1, <1>2, <1>3, <1>4, <1>6, QuietStep DEF CallOK

\* A statement of the work runs in the transaction of the call, which is open.
LEMMA WorkInv == ASSUME IndInv, NEW c \in Calls, Work(c) PROVE IndInv'
<1> DEFINE l == [call[c] EXCEPT !.done = @ + 1]
           s == [Mine(c) EXCEPT !.writes = @ \union {call[c].done + 1}]
<1>1. /\ call[c].phase = "working" /\ call[c].kind = "transaction" /\ call[c].done < 2
      /\ Mine(c).up /\ Mine(c).tx # "aborted"
  BY DEF Work, At, Executor, Mine
<1>2. /\ call[c] \in Call /\ call[c].connection \in Connections /\ Mine(c) \in Connection
      /\ Mine(c).client = "busy" /\ ConnectionOK(Mine(c))
      /\ PhaseOK(c) /\ TransactionOK(c)
  BY <1>1, Busy
<1>3. /\ Mine(c).tx = "open" /\ Mine(c).writes = 1..call[c].done /\ call[c].done \in {0, 1}
  BY <1>1, <1>2, CallFields DEF TransactionOK
<1>4. /\ l \in Call /\ l.connection = call[c].connection /\ l.phase = "working"
      /\ l.kind = "transaction" /\ l.ok = call[c].ok /\ l.done = call[c].done + 1
  BY <1>1, <1>2, <1>3 DEF Call
<1>5. /\ s \in Connection /\ s.client = "busy" /\ s.lock = Mine(c).lock /\ s.tx = "open"
      /\ s.writes = 1..l.done
  BY <1>2, <1>3, <1>4 DEF Connection
<1>6. /\ call' = [call EXCEPT ![c] = l] /\ UNCHANGED stored
      /\ connection' = [connection EXCEPT ![call[c].connection] = s]
      /\ faults' \in 0..MaxFaults
  <2>1. UNCHANGED stored /\ connection' = [connection EXCEPT ![call[c].connection].writes
                                             = @ \union {call[c].done + 1}]
    BY <1>3 DEF Work, Executor, Mine, stored
  <2> QED
    BY <2>1, <1>2 DEF Work, Mine, IndInv, DatabaseTypeOK
<1> HIDE DEF l, s
<1>7. call'[c] = l /\ Mine(c)' = s /\ rows'[c] = rows[c]
  BY <1>2, <1>4, <1>5, <1>6, After DEF stored
<1>8. PhaseOK(c)' /\ TransactionOK(c)' /\ MigrationOK(c)'
  BY <1>1, <1>2, <1>4, <1>5, <1>7 DEF PhaseOK, TransactionOK, MigrationOK
<1>9. ConnectionOK(s)
  BY <1>5 DEF ConnectionOK
<1> QED
  BY <1>2, <1>4, <1>5, <1>6, <1>8, <1>9, QuietStep DEF CallOK

\* COMMIT makes all of the work's rows permanent: they are in the open transaction.
LEMMA WorkIsWhole ==
  ASSUME IndInv, NEW c \in Calls, At(c, "transaction", "working"), call[c].done = 2, Mine(c).up
  PROVE  rows[c] \union Committed(c, Mine(c)) = {1, 2}
<1>1. TransactionOK(c) /\ 1..2 = {1, 2}
  BY Busy DEF At
<1> QED
  BY <1>1 DEF TransactionOK, At, Committed

LEMMA CommitInv == ASSUME IndInv, NEW c \in Calls, Commit(c) PROVE IndInv'
<1> DEFINE l == [call[c] EXCEPT !.phase = "releasing", !.ok = TRUE]
           s == Ended(Mine(c))
<1>1. call[c].phase = "working" /\ call[c].kind = "transaction" /\ UNCHANGED <<applied, schema>>
  BY DEF Commit, At
<1>2. /\ call[c] \in Call /\ call[c].connection \in Connections /\ Mine(c) \in Connection
      /\ Mine(c).client = "busy" /\ PhaseOK(c) /\ TransactionOK(c)
  BY <1>1, Busy
<1>3. /\ l \in Call /\ l.connection = call[c].connection /\ l.phase = "releasing"
      /\ l.kind = "transaction"
  BY <1>1, <1>2 DEF Call, Phases
<1>4. /\ s \in Connection /\ s.client = "busy" /\ s.lock = Mine(c).lock /\ s.tx = "none"
      /\ s.writes = {} /\ s.ran = {} /\ s.recorded = {}
  BY <1>2 DEF Connection, Ended
<1>5. /\ call' = [call EXCEPT ![c] = l] /\ faults' \in 0..MaxFaults /\ Mine(c).up
      /\ connection' = [connection EXCEPT ![call[c].connection] = s]
  BY <1>1, Answered DEF Commit
<1>6. rows' = [rows EXCEPT ![c] = {1, 2}] /\ rows'[c] = {1, 2}
  <2>1. rows[c] \union Committed(c, Mine(c)) = {1, 2}
    BY <1>5, WorkIsWhole DEF Commit
  <2> QED
    BY <2>1 DEF Commit, IndInv, DatabaseTypeOK
<1> HIDE DEF l, s
<1>7. call'[c] = l /\ Mine(c)' = s
  BY <1>2, <1>3, <1>4, <1>5, After
<1>8. PhaseOK(c)' /\ TransactionOK(c)' /\ MigrationOK(c)'
  BY <1>1, <1>2, <1>3, <1>4, <1>6, <1>7 DEF PhaseOK, TransactionOK, MigrationOK
<1>9. ConnectionOK(s)
  BY <1>4 DEF ConnectionOK
<1>10. /\ applied' \in [Versions -> Texts] /\ schema' \in [Versions -> 0..1]
       /\ SchemaMatchesHistory' /\ {1, 2} \in SUBSET {1, 2}
  BY <1>1 DEF IndInv, DatabaseTypeOK, SchemaMatchesHistory
<1> QED
  BY <1>1, <1>2, <1>3, <1>4, <1>5, <1>6, <1>8, <1>9, <1>10, StepOnConnection DEF CallOK

LEMMA CommitAnswerLostInv ==
  ASSUME IndInv, NEW c \in Calls, CommitAnswerLost(c) PROVE IndInv'
<1> DEFINE l == [call[c] EXCEPT !.phase = "rolling-back"]
           s == [Ended(Mine(c)) EXCEPT !.up = FALSE]
<1>1. /\ call[c].phase = "working" /\ call[c].kind = "transaction" /\ Mine(c).up
      /\ UNCHANGED <<applied, schema>>
  BY DEF CommitAnswerLost, At
<1>2. /\ call[c] \in Call /\ call[c].connection \in Connections /\ Mine(c) \in Connection
      /\ Mine(c).client = "busy" /\ PhaseOK(c) /\ TransactionOK(c)
  BY <1>1, Busy
<1>3. /\ l \in Call /\ l.connection = call[c].connection /\ l.phase = "rolling-back"
      /\ l.kind = "transaction" /\ l.ok = call[c].ok
  BY <1>1, <1>2 DEF Call, Phases
<1>4. /\ s \in Connection /\ s.client = "busy" /\ s.lock = Mine(c).lock /\ s.tx = "none"
      /\ ~s.up /\ s.writes = {} /\ s.ran = {} /\ s.recorded = {}
  BY <1>2 DEF Connection, Ended
<1>5. /\ call' = [call EXCEPT ![c] = l] /\ faults' \in 0..MaxFaults
      /\ connection' = [connection EXCEPT ![call[c].connection] = s]
  BY DatabaseAssumption
     DEF CommitAnswerLost, Goto, Serve, Fault, IndInv, DatabaseTypeOK
<1>6. rows' = [rows EXCEPT ![c] = {1, 2}] /\ rows'[c] = {1, 2}
  <2>1. rows[c] \union Committed(c, Mine(c)) = {1, 2}
    BY <1>1, WorkIsWhole DEF CommitAnswerLost
  <2> QED
    BY <2>1 DEF CommitAnswerLost, IndInv, DatabaseTypeOK
<1> HIDE DEF l, s
<1>7. call'[c] = l /\ Mine(c)' = s
  BY <1>2, <1>3, <1>4, <1>5, After
<1>8. PhaseOK(c)' /\ TransactionOK(c)' /\ MigrationOK(c)'
  BY <1>1, <1>2, <1>3, <1>4, <1>6, <1>7 DEF PhaseOK, TransactionOK, MigrationOK
<1>9. ConnectionOK(s)
  BY <1>4 DEF ConnectionOK
<1>10. /\ applied' \in [Versions -> Texts] /\ schema' \in [Versions -> 0..1]
       /\ SchemaMatchesHistory' /\ {1, 2} \in SUBSET {1, 2}
  BY <1>1 DEF IndInv, DatabaseTypeOK, SchemaMatchesHistory
<1> QED
  BY <1>1, <1>2, <1>3, <1>4, <1>5, <1>6, <1>8, <1>9, <1>10, StepOnConnection DEF CallOK

\* ROLLBACK, of transaction() and of migrate().
LEMMA RollBackInv == ASSUME IndInv, NEW c \in Calls, RollBack(c) PROVE IndInv'
<1> DEFINE l == [call[c] EXCEPT !.phase = AfterRollBack(c)]
           s == Ended(Mine(c))
<1>1. call[c].phase = "rolling-back" /\ UNCHANGED stored
  BY DEF RollBack
<1>2. /\ call[c] \in Call /\ call[c].connection \in Connections /\ Mine(c) \in Connection
      /\ Mine(c).client = "busy" /\ call[c].kind \in {"transaction", "migrate"}
      /\ PhaseOK(c) /\ TransactionOK(c) /\ MigrationOK(c)
  BY <1>1, Busy
<1>3. /\ l \in Call /\ l.connection = call[c].connection
      /\ l.kind = call[c].kind /\ l.ok = call[c].ok
      /\ l.kind = "transaction" => l.phase = "releasing"
      /\ l.kind = "migrate" => l.phase = "unlocking"
  BY <1>1, <1>2 DEF Call, Phases, AfterRollBack
<1>4. /\ s \in Connection /\ s.client = "busy" /\ s.lock = Mine(c).lock /\ s.tx = "none"
      /\ s.writes = {} /\ s.ran = {} /\ s.recorded = {}
  BY <1>2 DEF Connection, Ended
<1>5. /\ call' = [call EXCEPT ![c] = l] /\ faults' \in 0..MaxFaults
      /\ connection' = [connection EXCEPT ![call[c].connection] = s]
  BY <1>1, Answered DEF RollBack, Goto
<1> HIDE DEF l, s
<1>6. call'[c] = l /\ Mine(c)' = s /\ rows'[c] = rows[c]
  BY <1>1, <1>2, <1>3, <1>4, <1>5, After DEF stored
<1>7. PhaseOK(c)' /\ TransactionOK(c)'
  BY <1>1, <1>2, <1>3, <1>4, <1>6 DEF PhaseOK, TransactionOK
<1>8. MigrationOK(c)'
  BY <1>1, <1>2, <1>3, <1>4, <1>6 DEF MigrationOK, Looping
<1>9. ConnectionOK(s)
  BY <1>4 DEF ConnectionOK
<1> QED
  BY <1>1, <1>2, <1>3, <1>4, <1>5, <1>7, <1>8, <1>9, QuietStep DEF CallOK

\* A failed ROLLBACK, or unlock: the connection is going to be destroyed.
LEMMA GivenUpInv ==
  ASSUME IndInv, NEW c \in Calls, call[c].phase \in {"rolling-back", "unlocking"},
         QueryFails(c), UNCHANGED stored,
         call' = [call EXCEPT ![c].phase = "releasing", ![c].destroy = TRUE]
  PROVE  IndInv'
<1> DEFINE l == [call[c] EXCEPT !.phase = "releasing", !.destroy = TRUE]
<1>1. /\ call[c] \in Call /\ call[c].connection \in Connections
      /\ call[c].kind \in {"transaction", "migrate"}
      /\ PhaseOK(c) /\ TransactionOK(c) /\ MigrationOK(c)
  BY Busy
<1>2. /\ l \in Call /\ l.connection = call[c].connection /\ l.phase = "releasing" /\ l.destroy
      /\ l.kind = call[c].kind /\ l.ok = call[c].ok
      /\ call' = [call EXCEPT ![c] = l]
  BY <1>1 DEF Call, Phases
<1> HIDE DEF l
<1>3. PICK s \in Connection :
        /\ connection' = [connection EXCEPT ![call[c].connection] = s]
        /\ faults' \in 0..MaxFaults
        /\ s.client = "busy" /\ ConnectionOK(s)
        /\ s.lock = Mine(c).lock /\ s.up = Mine(c).up
        /\ Mine(c).tx = "none" => s.tx = "none"
  BY Failed
<1>4. call'[c] = l /\ Mine(c)' = s /\ rows'[c] = rows[c]
  BY <1>1, <1>2, <1>3, After DEF stored
<1>5. PhaseOK(c)' /\ TransactionOK(c)'
  BY <1>1, <1>2, <1>3, <1>4 DEF PhaseOK, TransactionOK
<1>6. MigrationOK(c)'
  BY <1>1, <1>2, <1>3, <1>4 DEF MigrationOK, Looping
<1> QED
  BY <1>1, <1>2, <1>3, <1>5, <1>6, QuietStep DEF CallOK

-----------------------------------------------------------------------------
(* migrate() preserves the invariant.                                      *)

\* A step that leaves the connections alone.
LEMMA Unmoved ==
  ASSUME IndInv, NEW c \in Calls, UNCHANGED connection, UNCHANGED faults
  PROVE  /\ connection' = [connection EXCEPT ![call[c].connection] = Mine(c)]
         /\ faults' \in 0..MaxFaults
BY DEF IndInv, DatabaseTypeOK, Mine

\* Which call it is that is in a phase of migrate().
LEMMA Migrating ==
  ASSUME IndInv, NEW c \in Calls,
         call[c].phase \in Looping \union {"locking", "reading", "unlocking"}
  PROVE  call[c].kind = "migrate"
BY Busy DEF PhaseOK, Looping

LEMMA LockInv == ASSUME IndInv, NEW c \in Calls, Lock(c) PROVE IndInv'
<1> DEFINE l == [call[c] EXCEPT !.phase = "reading"]
           s == [Mine(c) EXCEPT !.lock = TRUE]
<1>1. /\ call[c].phase = "locking" /\ call[c].kind = "migrate" /\ UNCHANGED stored
      /\ LockIsFree
  BY Migrating DEF Lock
<1>2. /\ call[c] \in Call /\ call[c].connection \in Connections /\ Mine(c) \in Connection
      /\ Mine(c).client = "busy" /\ ConnectionOK(Mine(c))
      /\ PhaseOK(c) /\ MigrationOK(c)
  BY <1>1, Busy
<1>3. /\ l \in Call /\ l.connection = call[c].connection /\ l.phase = "reading"
      /\ l.kind = "migrate" /\ l.ok = call[c].ok
  BY <1>1, <1>2 DEF Call, Phases
<1>4. /\ s \in Connection /\ s.client = "busy" /\ s.lock /\ s.tx = Mine(c).tx
      /\ s.writes = Mine(c).writes /\ s.ran = Mine(c).ran /\ s.recorded = Mine(c).recorded
  BY <1>2 DEF Connection
<1>5. /\ call' = [call EXCEPT ![c] = l] /\ faults' \in 0..MaxFaults
      /\ connection' = [connection EXCEPT ![call[c].connection] = s]
  BY <1>1, Answered DEF Lock, Goto
<1> HIDE DEF l, s
<1>6. call'[c] = l /\ Mine(c)' = s /\ rows'[c] = rows[c]
  BY <1>1, <1>2, <1>3, <1>4, <1>5, After DEF stored
<1>7. PhaseOK(c)' /\ TransactionOK(c)'
  BY <1>1, <1>2, <1>3, <1>4, <1>6 DEF PhaseOK, TransactionOK
<1>8. MigrationOK(c)'
  BY <1>1, <1>2, <1>3, <1>4, <1>6 DEF MigrationOK, Looping
<1>9. ConnectionOK(s)
  BY <1>2, <1>4 DEF ConnectionOK
<1> QED
  BY <1>1, <1>2, <1>3, <1>4, <1>5, <1>7, <1>8, <1>9, QuietStep DEF CallOK

\* The lock may be granted to a session nobody listens to any more.
LEMMA LockFailsInv == ASSUME IndInv, NEW c \in Calls, LockFails(c) PROVE IndInv'
<1> DEFINE l == [call[c] EXCEPT !.phase = "releasing"]
<1>1. call[c].phase = "locking" /\ call[c].kind = "migrate" /\ UNCHANGED stored
  BY Migrating DEF LockFails
<1>2. /\ call[c] \in Call /\ call[c].connection \in Connections /\ Mine(c) \in Connection
      /\ Mine(c).client = "busy" /\ ConnectionOK(Mine(c))
      /\ PhaseOK(c) /\ MigrationOK(c)
  BY <1>1, Busy
<1>3. /\ l \in Call /\ l.connection = call[c].connection /\ l.phase = "releasing"
      /\ l.kind = "migrate" /\ l.ok = call[c].ok
      /\ call' = [call EXCEPT ![c] = l]
  BY <1>1, <1>2 DEF Call, Phases, LockFails, Goto
<1> HIDE DEF l
<1>4. PICK s \in Connection :
        /\ connection' = [connection EXCEPT ![call[c].connection] = s]
        /\ faults' \in 0..MaxFaults
        /\ s.client = "busy" /\ ConnectionOK(s) /\ s.tx = "none"
        /\ s.lock => ~s.up /\ LockIsFree
  <2>1. Mine(c).tx = "none" /\ ~Mine(c).lock
    BY <1>1, <1>2 DEF MigrationOK
  <2>2. CASE UNCHANGED connection
    BY <1>2, <2>1, <2>2, Unmoved DEF LockFails
  <2>3. ASSUME NEW granted \in BOOLEAN, ~Mine(c).up, granted => LockIsFree,
               Serve(c, [Mine(c) EXCEPT !.lock = granted])
        PROVE  \E s \in Connection :
                 /\ connection' = [connection EXCEPT ![call[c].connection] = s]
                 /\ faults' \in 0..MaxFaults
                 /\ s.client = "busy" /\ ConnectionOK(s) /\ s.tx = "none"
                 /\ s.lock => ~s.up /\ LockIsFree
    <3> DEFINE t == [Mine(c) EXCEPT !.lock = granted]
    <3>1. /\ t \in Connection /\ t.client = "busy" /\ t.tx = "none" /\ t.lock = granted
          /\ ~t.up /\ t.writes = Mine(c).writes /\ t.ran = Mine(c).ran
          /\ t.recorded = Mine(c).recorded
      BY <1>2, <2>1, <2>3 DEF Connection
    <3>2. ConnectionOK(t)
      BY <1>2, <2>1, <3>1 DEF ConnectionOK
    <3>3. /\ connection' = [connection EXCEPT ![call[c].connection] = t]
          /\ faults' \in 0..MaxFaults
      BY <2>3 DEF Serve, LockFails, IndInv, DatabaseTypeOK
    <3> HIDE DEF t
    <3> QED
      BY <2>3, <3>1, <3>2, <3>3
  <2> QED
    BY <2>2, <2>3 DEF LockFails
<1>5. call'[c] = l /\ Mine(c)' = s /\ rows'[c] = rows[c]
  BY <1>1, <1>2, <1>3, <1>4, After DEF stored
<1>6. PhaseOK(c)' /\ TransactionOK(c)'
  BY <1>1, <1>2, <1>3, <1>4, <1>5 DEF PhaseOK, TransactionOK
<1>7. MigrationOK(c)'
  BY <1>1, <1>2, <1>3, <1>4, <1>5 DEF MigrationOK, Looping
<1> QED
  BY <1>1, <1>2, <1>3, <1>4, <1>6, <1>7, QuietStep DEF CallOK

\* The history is read under the lock, and it holds as long as the lock does.
LEMMA ReadHistoryInv == ASSUME IndInv, NEW c \in Calls, ReadHistory(c) PROVE IndInv'
<1> DEFINE l == IF HistoryPresent(c) THEN [call[c] EXCEPT !.phase = "looping", !.seen = applied]
                ELSE [call[c] EXCEPT !.phase = "unlocking"]
<1>1. call[c].phase = "reading" /\ call[c].kind = "migrate" /\ UNCHANGED stored
  BY Migrating DEF ReadHistory, Looping
<1>2. /\ call[c] \in Call /\ call[c].connection \in Connections /\ Mine(c) \in Connection
      /\ Mine(c).client = "busy" /\ ConnectionOK(Mine(c))
      /\ PhaseOK(c) /\ MigrationOK(c)
  BY <1>1, Busy
<1>3. /\ l \in Call /\ l.connection = call[c].connection
      /\ l.kind = "migrate" /\ l.ok = call[c].ok /\ l.release = call[c].release
      /\ l.phase = "unlocking" \/ /\ l.phase = "looping" /\ l.seen = applied
                                  /\ HistoryPresent(c)
  BY <1>1, <1>2 DEF Call, Phases, IndInv, DatabaseTypeOK
<1>4. /\ call' = [call EXCEPT ![c] = l] /\ faults' \in 0..MaxFaults
      /\ connection' = [connection EXCEPT ![call[c].connection] = Mine(c)]
  BY <1>1, Answered DEF ReadHistory, Goto
<1> HIDE DEF l
<1>5. call'[c] = l /\ Mine(c)' = Mine(c) /\ rows'[c] = rows[c] /\ applied' = applied
  BY <1>1, <1>2, <1>3, <1>4, After DEF stored
<1>6. PhaseOK(c)' /\ TransactionOK(c)'
  BY <1>1, <1>2, <1>3, <1>5 DEF PhaseOK, TransactionOK
<1>7. MigrationOK(c)'
  BY <1>1, <1>2, <1>3, <1>5 DEF MigrationOK, Looping, HistoryPresent
<1> QED
  BY <1>1, <1>2, <1>3, <1>4, <1>6, <1>7, QuietStep DEF CallOK

\* The loop ends, or a text does not match: on to the unlock.
LEMMA LoopEndsInv ==
  ASSUME IndInv, NEW c \in Calls, FinishLoop(c) \/ Mismatch(c) PROVE IndInv'
<1> DEFINE l == [call[c] EXCEPT !.phase = "unlocking",
                                !.ok = IF FinishLoop(c) THEN TRUE ELSE @]
<1>1. call[c].phase = "looping" /\ call[c].kind = "migrate" /\ UNCHANGED stored
  BY Migrating DEF FinishLoop, Mismatch, Looping
<1>2. /\ call[c] \in Call /\ call[c].connection \in Connections /\ Mine(c) \in Connection
      /\ Mine(c).client = "busy" /\ ConnectionOK(Mine(c))
      /\ PhaseOK(c) /\ MigrationOK(c)
  BY <1>1, Busy
<1>3. /\ l \in Call /\ l.connection = call[c].connection /\ l.phase = "unlocking"
      /\ l.kind = "migrate"
  BY <1>1, <1>2 DEF Call, Phases
<1>4. call' = [call EXCEPT ![c] = l]
  <2>1. CASE FinishLoop(c)
    BY <2>1 DEF FinishLoop
  <2>2. CASE Mismatch(c) /\ ~FinishLoop(c)
    <3>1. [call[c] EXCEPT !.phase = "unlocking", !.ok = @] = [call[c] EXCEPT !.phase = "unlocking"]
      BY <1>2 DEF Call
    <3> QED
      BY <2>2, <3>1 DEF Mismatch, Goto
  <2> QED
    BY <2>1, <2>2
<1>5. /\ faults' \in 0..MaxFaults
      /\ connection' = [connection EXCEPT ![call[c].connection] = Mine(c)]
  BY Unmoved DEF FinishLoop, Mismatch
<1> HIDE DEF l
<1>6. call'[c] = l /\ Mine(c)' = Mine(c) /\ rows'[c] = rows[c]
  BY <1>1, <1>2, <1>3, <1>4, <1>5, After DEF stored
<1>7. PhaseOK(c)' /\ TransactionOK(c)'
  BY <1>1, <1>2, <1>3, <1>6 DEF PhaseOK, TransactionOK
<1>8. MigrationOK(c)'
  BY <1>1, <1>2, <1>3, <1>6 DEF MigrationOK, Looping
<1> QED
  BY <1>1, <1>2, <1>3, <1>4, <1>5, <1>7, <1>8, QuietStep DEF CallOK

\* BEGIN of a migration: its transaction is open and empty.
LEMMA BeginMigrationInv == ASSUME IndInv, NEW c \in Calls, BeginMigration(c) PROVE IndInv'
<1> DEFINE l == [call[c] EXCEPT !.phase = "running"]
           s == Opened(Mine(c))
<1>1. /\ call[c].phase = "looping" /\ call[c].kind = "migrate" /\ UNCHANGED stored
      /\ Pending(c) # {} /\ IsNew(c, Current(c))
  BY Migrating DEF BeginMigration, Looping
<1>2. /\ call[c] \in Call /\ call[c].connection \in Connections /\ Mine(c) \in Connection
      /\ Mine(c).client = "busy" /\ ConnectionOK(Mine(c))
      /\ PhaseOK(c) /\ MigrationOK(c)
  BY <1>1, Busy
<1>3. /\ l \in Call /\ l.connection = call[c].connection /\ l.phase = "running"
      /\ l.kind = "migrate" /\ l.ok = call[c].ok
      /\ l.release = call[c].release /\ l.seen = call[c].seen
  BY <1>1, <1>2 DEF Call, Phases
<1>4. /\ s \in Connection /\ s.client = "busy" /\ s.lock = Mine(c).lock /\ s.tx = "open"
      /\ s.up = Mine(c).up /\ s.ran = Mine(c).ran /\ s.recorded = Mine(c).recorded
  BY <1>2 DEF Connection, Opened
<1>5. /\ call' = [call EXCEPT ![c] = l] /\ faults' \in 0..MaxFaults
      /\ connection' = [connection EXCEPT ![call[c].connection] = s]
  BY <1>1, Answered DEF BeginMigration, Goto
<1> HIDE DEF l, s
<1>6. call'[c] = l /\ Mine(c)' = s /\ rows'[c] = rows[c] /\ applied' = applied
  BY <1>1, <1>2, <1>3, <1>4, <1>5, After DEF stored
<1>7. Pending(c)' # {} /\ IsNew(c, Current(c))'
  BY <1>1, <1>3, <1>6, SamePending
<1>8. s.ran = {} /\ s.recorded = {}
  BY <1>1, <1>2, <1>4 DEF MigrationOK, ConnectionOK
<1>9. PhaseOK(c)' /\ TransactionOK(c)'
  BY <1>1, <1>2, <1>3, <1>4, <1>6 DEF PhaseOK, TransactionOK
<1>10. MigrationOK(c)'
  BY <1>1, <1>2, <1>3, <1>4, <1>6, <1>7, <1>8 DEF MigrationOK, Looping
<1>11. ConnectionOK(s)
  BY <1>4 DEF ConnectionOK
<1> QED
  BY <1>1, <1>2, <1>3, <1>4, <1>5, <1>9, <1>10, <1>11, QuietStep DEF CallOK

LEMMA MigrateQueryFailsInv ==
  ASSUME IndInv, NEW c \in Calls, MigrateQueryFails(c) PROVE IndInv'
<1> DEFINE l == [call[c] EXCEPT !.phase = IF call[c].phase \in {"running", "recording"}
                                          THEN "rolling-back" ELSE "unlocking"]
<1>1. /\ call[c].phase \in {"reading", "looping", "running", "recording"}
      /\ call[c].kind = "migrate" /\ UNCHANGED stored
  BY Migrating DEF MigrateQueryFails, Looping
<1>2. /\ call[c] \in Call /\ call[c].connection \in Connections
      /\ PhaseOK(c) /\ MigrationOK(c)
  BY <1>1, Busy
<1>3. /\ l \in Call /\ l.connection = call[c].connection
      /\ l.phase = IF call[c].phase \in {"running", "recording"}
                   THEN "rolling-back" ELSE "unlocking"
      /\ l.kind = "migrate" /\ l.ok = call[c].ok
      /\ call' = [call EXCEPT ![c] = l]
  BY <1>1, <1>2 DEF Call, Phases, MigrateQueryFails, Goto
<1> HIDE DEF l
<1>4. PICK s \in Connection :
        /\ connection' = [connection EXCEPT ![call[c].connection] = s]
        /\ faults' \in 0..MaxFaults
        /\ s.client = "busy" /\ ConnectionOK(s)
        /\ s.lock = Mine(c).lock /\ s.up = Mine(c).up
        /\ Mine(c).tx = "none" => s.tx = "none"
  BY <1>1, Failed DEF MigrateQueryFails
<1>5. call'[c] = l /\ Mine(c)' = s /\ rows'[c] = rows[c]
  BY <1>1, <1>2, <1>3, <1>4, After DEF stored
<1>6. PhaseOK(c)' /\ TransactionOK(c)'
  BY <1>1, <1>2, <1>3, <1>4, <1>5 DEF PhaseOK, TransactionOK
<1>7. MigrationOK(c)'
  BY <1>1, <1>2, <1>3, <1>4, <1>5 DEF MigrationOK, Looping
<1> QED
  BY <1>1, <1>2, <1>3, <1>4, <1>6, <1>7, QuietStep DEF CallOK

\* The transaction of the connection is open when the statements of the migration run: so
\* they are not committed by themselves.
LEMMA RunSqlInv == ASSUME IndInv, NEW c \in Calls, RunSql(c) PROVE IndInv'
<1> DEFINE l == [call[c] EXCEPT !.phase = "recording"]
           s == [Mine(c) EXCEPT !.ran = @ \union {Current(c)}]
<1>1. call[c].phase = "running" /\ call[c].kind = "migrate" /\ Mine(c).up
  BY Migrating DEF RunSql, Looping, Query
<1>2. /\ call[c] \in Call /\ call[c].connection \in Connections /\ Mine(c) \in Connection
      /\ Mine(c).client = "busy" /\ ConnectionOK(Mine(c))
      /\ PhaseOK(c) /\ MigrationOK(c)
  BY <1>1, Busy
<1>3. /\ Mine(c).tx = "open" /\ Mine(c).ran = {} /\ Mine(c).recorded = {}
      /\ Pending(c) # {} /\ IsNew(c, Current(c))
  BY <1>1, <1>2 DEF MigrationOK, Looping
<1>4. Current(c) \in Versions
  BY <1>3, CurrentIsPending DEF Pending
<1>5. /\ l \in Call /\ l.connection = call[c].connection /\ l.phase = "recording"
      /\ l.kind = "migrate" /\ l.ok = call[c].ok
      /\ l.release = call[c].release /\ l.seen = call[c].seen
  BY <1>1, <1>2 DEF Call, Phases
<1>6. /\ s \in Connection /\ s.client = "busy" /\ s.lock = Mine(c).lock /\ s.tx = "open"
      /\ s.up = Mine(c).up /\ s.ran = {Current(c)} /\ s.recorded = {}
  BY <1>2, <1>3, <1>4 DEF Connection
<1>7. /\ call' = [call EXCEPT ![c] = l] /\ faults' \in 0..MaxFaults /\ UNCHANGED stored
      /\ connection' = [connection EXCEPT ![call[c].connection] = s]
  BY <1>1, <1>3, Answered DEF RunSql, Goto, stored
<1> HIDE DEF l, s
<1>8. call'[c] = l /\ Mine(c)' = s /\ rows'[c] = rows[c] /\ applied' = applied
  BY <1>2, <1>5, <1>6, <1>7, After DEF stored
<1>9. Pending(c)' # {} /\ IsNew(c, Current(c))' /\ Current(c)' = Current(c)
  BY <1>3, <1>5, <1>8, SamePending
<1>10. PhaseOK(c)' /\ TransactionOK(c)'
  BY <1>1, <1>2, <1>5, <1>6, <1>8 DEF PhaseOK, TransactionOK
<1>11. MigrationOK(c)'
  BY <1>1, <1>2, <1>5, <1>6, <1>8, <1>9 DEF MigrationOK, Looping
<1>12. ConnectionOK(s)
  BY <1>6 DEF ConnectionOK
<1> QED
  BY <1>2, <1>5, <1>6, <1>7, <1>10, <1>11, <1>12, QuietStep DEF CallOK

LEMMA RecordInv == ASSUME IndInv, NEW c \in Calls, Record(c) PROVE IndInv'
<1>1. call[c].phase = "recording" /\ call[c].kind = "migrate" /\ UNCHANGED stored
  BY Migrating DEF Record, Looping
<1>2. /\ call[c] \in Call /\ call[c].connection \in Connections /\ Mine(c) \in Connection
      /\ Mine(c).client = "busy" /\ ConnectionOK(Mine(c))
      /\ PhaseOK(c) /\ MigrationOK(c) /\ Pending(c) # {} /\ IsNew(c, Current(c))
  BY <1>1, Busy DEF MigrationOK, Looping
<1>3. Current(c) \in Versions
  BY <1>2, CurrentIsPending DEF Pending
<1>4. CASE applied[Current(c)] # NoText
  <2> DEFINE l == [call[c] EXCEPT !.phase = "rolling-back"]
             s == [Mine(c) EXCEPT !.tx = "aborted"]
  <2>1. /\ l \in Call /\ l.connection = call[c].connection /\ l.phase = "rolling-back"
        /\ l.kind = "migrate" /\ l.ok = call[c].ok
    BY <1>1, <1>2 DEF Call, Phases
  <2>2. /\ s \in Connection /\ s.client = "busy" /\ s.lock = Mine(c).lock /\ s.tx = "aborted"
        /\ ConnectionOK(s)
    BY <1>2 DEF Connection, ConnectionOK
  <2>3. /\ call' = [call EXCEPT ![c] = l] /\ faults' \in 0..MaxFaults
        /\ connection' = [connection EXCEPT ![call[c].connection] = s]
    BY <1>4 DEF Record, Goto, Serve, IndInv, DatabaseTypeOK
  <2> HIDE DEF l, s
  <2>4. call'[c] = l /\ Mine(c)' = s /\ rows'[c] = rows[c]
    BY <1>1, <1>2, <2>1, <2>2, <2>3, After DEF stored
  <2>5. PhaseOK(c)' /\ TransactionOK(c)'
    BY <1>1, <1>2, <2>1, <2>2, <2>4 DEF PhaseOK, TransactionOK
  <2>6. MigrationOK(c)'
    BY <1>1, <1>2, <2>1, <2>2, <2>4 DEF MigrationOK, Looping
  <2> QED
    BY <1>1, <1>2, <2>1, <2>2, <2>3, <2>5, <2>6, QuietStep DEF CallOK
<1>5. CASE applied[Current(c)] = NoText
  <2> DEFINE l == [call[c] EXCEPT !.phase = "committing"]
             s == [Mine(c) EXCEPT !.recorded = @ \union {Current(c)}]
  <2>1. /\ l \in Call /\ l.connection = call[c].connection /\ l.phase = "committing"
        /\ l.kind = "migrate" /\ l.ok = call[c].ok
        /\ l.release = call[c].release /\ l.seen = call[c].seen
    BY <1>1, <1>2 DEF Call, Phases
  <2>2. /\ call' = [call EXCEPT ![c] = l] /\ faults' \in 0..MaxFaults /\ Mine(c).up
        /\ connection' = [connection EXCEPT ![call[c].connection] = s]
    BY <1>1, <1>5, Answered DEF Record, Goto
  <2>3. /\ Mine(c).tx = "open" /\ Mine(c).ran = {Current(c)} /\ Mine(c).recorded = {}
    BY <1>1, <1>2, <2>2 DEF MigrationOK, Looping
  <2>4. /\ s \in Connection /\ s.client = "busy" /\ s.lock = Mine(c).lock /\ s.tx = "open"
        /\ s.up = Mine(c).up /\ s.ran = {Current(c)} /\ s.recorded = {Current(c)}
    BY <1>2, <1>3, <2>3 DEF Connection
  <2> HIDE DEF l, s
  <2>5. call'[c] = l /\ Mine(c)' = s /\ rows'[c] = rows[c] /\ applied' = applied
    BY <1>1, <1>2, <2>1, <2>2, <2>4, After DEF stored
  <2>6. Pending(c)' # {} /\ IsNew(c, Current(c))' /\ Current(c)' = Current(c)
    BY <1>2, <2>1, <2>5, SamePending
  <2>7. PhaseOK(c)' /\ TransactionOK(c)' /\ ConnectionOK(s)
    BY <1>1, <1>2, <2>1, <2>4, <2>5 DEF PhaseOK, TransactionOK, ConnectionOK
  <2>8. MigrationOK(c)'
    BY <1>1, <1>2, <2>1, <2>4, <2>5, <2>6 DEF MigrationOK, Looping
  <2> QED
    BY <1>1, <1>2, <2>1, <2>2, <2>4, <2>7, <2>8, QuietStep DEF CallOK
<1> QED
  BY <1>4, <1>5

\* COMMIT of a migration: it is recorded for the first time, and by the call with the lock.
LEMMA MigrationCommits ==
  ASSUME IndInv, NEW c \in Calls, call[c].phase = "committing", Mine(c).up, CommitOnServer(c)
  PROVE  /\ Mine(c).lock /\ Current(c) \in Versions
         /\ call[c].release[Current(c)] # NoText /\ call[c].seen = applied
         /\ applied' = [applied EXCEPT ![Current(c)] = call[c].release[Current(c)]]
         /\ applied' \in [Versions -> Texts] /\ schema' \in [Versions -> 0..1]
         /\ SchemaMatchesHistory' /\ rows' = rows
<1>1. /\ call[c].kind = "migrate" /\ MigrationOK(c) /\ call[c] \in Call
      /\ applied \in [Versions -> Texts] /\ schema \in [Versions -> 0..1]
      /\ SchemaMatchesHistory
  BY Busy, Migrating DEF Looping, IndInv, DatabaseTypeOK
<1>2. /\ Mine(c).lock /\ call[c].seen = applied /\ Pending(c) # {} /\ IsNew(c, Current(c))
      /\ Mine(c).ran = {Current(c)} /\ Mine(c).recorded = {Current(c)}
  BY <1>1 DEF MigrationOK, Looping
<1>3. /\ Current(c) \in Versions /\ call[c].release[Current(c)] # NoText
      /\ applied[Current(c)] = NoText
  BY <1>2, CurrentIsPending DEF Pending, IsNew
<1>4. call[c].release[Current(c)] \in Texts
  BY <1>1, <1>3, ReleaseTexts
<1>5. applied' = [applied EXCEPT ![Current(c)] = call[c].release[Current(c)]]
  BY <1>1, <1>2, <1>3 DEF CommitOnServer
<1>6. schema' = [schema EXCEPT ![Current(c)] = 1]
  <2>1. schema[Current(c)] = 0
    BY <1>1, <1>3 DEF SchemaMatchesHistory
  <2>2. schema' = [v \in Versions |-> schema[v] + (IF v \in {Current(c)} THEN 1 ELSE 0)]
    BY <1>2 DEF CommitOnServer
  <2>3. \A v \in Versions : schema'[v] = IF v = Current(c) THEN 1 ELSE schema[v]
    BY <1>1, <2>1, <2>2
  <2> QED
    BY <1>1, <2>2, <2>3
<1>7. SchemaMatchesHistory'
  BY <1>1, <1>3, <1>5, <1>6 DEF SchemaMatchesHistory
<1>8. applied' \in [Versions -> Texts] /\ schema' \in [Versions -> 0..1]
  BY <1>1, <1>3, <1>4, <1>5, <1>6
<1>9. rows' = rows
  BY DEF CommitOnServer
<1> QED
  BY <1>2, <1>3, <1>5, <1>7, <1>8, <1>9

LEMMA CommitMigrationInv == ASSUME IndInv, NEW c \in Calls, CommitMigration(c) PROVE IndInv'
<1> DEFINE l == [call[c] EXCEPT !.phase = "looping",
                                !.seen[Current(c)] = call[c].release[Current(c)]]
           s == Ended(Mine(c))
           w == rows[c]
<1>1. call[c].phase = "committing" /\ call[c].kind = "migrate" /\ CommitOnServer(c)
  BY Migrating DEF CommitMigration, Looping
<1>2. /\ call[c] \in Call /\ call[c].connection \in Connections /\ Mine(c) \in Connection
      /\ Mine(c).client = "busy" /\ PhaseOK(c) /\ MigrationOK(c)
  BY <1>1, Busy
<1>3. /\ connection' = [connection EXCEPT ![call[c].connection] = s]
      /\ faults' \in 0..MaxFaults /\ Mine(c).up
  BY <1>1, Answered DEF CommitMigration
<1>4. /\ Mine(c).lock /\ Current(c) \in Versions
      /\ call[c].release[Current(c)] # NoText /\ call[c].seen = applied
      /\ applied' = [applied EXCEPT ![Current(c)] = call[c].release[Current(c)]]
      /\ applied' \in [Versions -> Texts] /\ schema' \in [Versions -> 0..1]
      /\ SchemaMatchesHistory' /\ rows' = rows
  BY <1>1, <1>3, MigrationCommits
<1>5. /\ l \in Call /\ l.connection = call[c].connection /\ l.phase = "looping"
      /\ l.kind = "migrate" /\ l.ok = call[c].ok /\ l.release = call[c].release
      /\ l.seen = applied'
      /\ call' = [call EXCEPT ![c] = l]
  <2>1. [call[c].seen EXCEPT ![Current(c)] = call[c].release[Current(c)]] = applied'
    BY <1>4
  <2>2. /\ l = [call[c] EXCEPT !.phase = "looping", !.seen = applied']
        /\ call' = [call EXCEPT ![c] = l]
    BY <2>1 DEF CommitMigration
  <2> HIDE DEF l
  <2> QED
    BY <1>1, <1>2, <1>4, <2>2 DEF Call, Phases
<1>6. /\ s \in Connection /\ s.client = "busy" /\ s.lock = Mine(c).lock /\ s.tx = "none"
      /\ s.writes = {} /\ s.ran = {} /\ s.recorded = {}
  BY <1>2 DEF Connection, Ended
<1>7. w \in SUBSET {1, 2} /\ rows' = [rows EXCEPT ![c] = w] /\ w = rows[c]
  BY <1>4 DEF IndInv, DatabaseTypeOK
<1> HIDE DEF l, s, w
<1>8. call'[c] = l /\ Mine(c)' = s /\ rows'[c] = rows[c]
  BY <1>2, <1>3, <1>4, <1>5, <1>6, After
<1>9. PhaseOK(c)' /\ TransactionOK(c)' /\ ConnectionOK(s)
  BY <1>1, <1>2, <1>5, <1>6, <1>8 DEF PhaseOK, TransactionOK, ConnectionOK
<1>10. \A v \in Versions : l.seen[v] # NoText => l.release[v] # NoText
  BY <1>1, <1>2, <1>4, <1>5 DEF MigrationOK, Looping, IndInv, DatabaseTypeOK
<1>11. MigrationOK(c)'
  BY <1>1, <1>2, <1>4, <1>5, <1>6, <1>8, <1>10 DEF MigrationOK, Looping
<1> QED
  BY <1>2, <1>3, <1>4, <1>5, <1>6, <1>7, <1>9, <1>11, StepOnConnection DEF CallOK

\* A failed COMMIT, with and without its effect.
LEMMA CommitMigrationFailsInv ==
  ASSUME IndInv, NEW c \in Calls, CommitMigrationFails(c) PROVE IndInv'
<1> DEFINE l == [call[c] EXCEPT !.phase = "rolling-back"]
           w == rows[c]
<1>1. call[c].phase = "committing" /\ call[c].kind = "migrate"
  BY Migrating DEF CommitMigrationFails, Looping
<1>2. /\ call[c] \in Call /\ call[c].connection \in Connections /\ Mine(c) \in Connection
      /\ Mine(c).client = "busy" /\ PhaseOK(c) /\ MigrationOK(c)
  BY <1>1, Busy
<1>3. /\ l \in Call /\ l.connection = call[c].connection /\ l.phase = "rolling-back"
      /\ l.kind = "migrate" /\ l.ok = call[c].ok
      /\ call' = [call EXCEPT ![c] = l]
  BY <1>1, <1>2 DEF Call, Phases, CommitMigrationFails, Goto
<1>4. PICK s \in Connection :
        /\ connection' = [connection EXCEPT ![call[c].connection] = s]
        /\ faults' \in 0..MaxFaults
        /\ s.client = "busy" /\ ConnectionOK(s) /\ s.lock = Mine(c).lock
  <2>1. CASE QueryFails(c)
    BY <1>1, <2>1, Failed
  <2>2. CASE Fault /\ Serve(c, [Ended(Mine(c)) EXCEPT !.up = FALSE])
    <3> DEFINE s == [Ended(Mine(c)) EXCEPT !.up = FALSE]
    <3>1. /\ s \in Connection /\ s.client = "busy" /\ s.lock = Mine(c).lock /\ ConnectionOK(s)
      BY <1>2 DEF Connection, ConnectionOK, Ended
    <3>2. /\ connection' = [connection EXCEPT ![call[c].connection] = s]
          /\ faults' \in 0..MaxFaults
      BY <2>2, DatabaseAssumption DEF Serve, Fault, IndInv, DatabaseTypeOK
    <3> HIDE DEF s
    <3> QED
      BY <3>1, <3>2
  <2> QED
    BY <2>1, <2>2 DEF CommitMigrationFails
<1>5. /\ (UNCHANGED <<applied, schema>>) \/ Mine(c).lock
      /\ applied' \in [Versions -> Texts] /\ schema' \in [Versions -> 0..1]
      /\ SchemaMatchesHistory' /\ rows' = rows
  <2>1. CASE UNCHANGED stored
    BY <2>1 DEF stored, IndInv, DatabaseTypeOK, SchemaMatchesHistory
  <2>2. CASE Mine(c).up /\ CommitOnServer(c)
    BY <1>1, <2>2, MigrationCommits
  <2> QED
    BY <2>1, <2>2 DEF CommitMigrationFails
<1>6. w \in SUBSET {1, 2} /\ rows' = [rows EXCEPT ![c] = w] /\ w = rows[c]
  BY <1>5 DEF IndInv, DatabaseTypeOK
<1> HIDE DEF l, w
<1>7. call'[c] = l /\ Mine(c)' = s /\ rows'[c] = rows[c]
  BY <1>2, <1>3, <1>4, <1>5, After
<1>8. PhaseOK(c)' /\ TransactionOK(c)'
  BY <1>1, <1>2, <1>3, <1>4, <1>7 DEF PhaseOK, TransactionOK
<1>9. MigrationOK(c)'
  BY <1>1, <1>2, <1>3, <1>4, <1>7 DEF MigrationOK, Looping
<1> QED
  BY <1>2, <1>3, <1>4, <1>5, <1>6, <1>8, <1>9, StepOnConnection DEF CallOK

LEMMA UnlockInv == ASSUME IndInv, NEW c \in Calls, Unlock(c) PROVE IndInv'
<1> DEFINE l == [call[c] EXCEPT !.phase = "releasing"]
           s == [Mine(c) EXCEPT !.lock = FALSE]
<1>1. call[c].phase = "unlocking" /\ call[c].kind = "migrate" /\ UNCHANGED stored
  BY Migrating DEF Unlock
<1>2. /\ call[c] \in Call /\ call[c].connection \in Connections /\ Mine(c) \in Connection
      /\ Mine(c).client = "busy" /\ ConnectionOK(Mine(c)) /\ PhaseOK(c) /\ MigrationOK(c)
  BY <1>1, Busy
<1>3. /\ l \in Call /\ l.connection = call[c].connection /\ l.phase = "releasing"
      /\ l.kind = "migrate" /\ l.ok = call[c].ok
  BY <1>1, <1>2 DEF Call, Phases
<1>4. /\ s \in Connection /\ s.client = "busy" /\ ~s.lock /\ s.tx = "none" /\ ConnectionOK(s)
  BY <1>1, <1>2 DEF Connection, ConnectionOK, MigrationOK
<1>5. /\ call' = [call EXCEPT ![c] = l] /\ faults' \in 0..MaxFaults
      /\ connection' = [connection EXCEPT ![call[c].connection] = s]
  BY <1>1, Answered DEF Unlock, Goto
<1> HIDE DEF l, s
<1>6. call'[c] = l /\ Mine(c)' = s /\ rows'[c] = rows[c]
  BY <1>1, <1>2, <1>3, <1>4, <1>5, After DEF stored
<1>7. PhaseOK(c)' /\ TransactionOK(c)'
  BY <1>1, <1>2, <1>3, <1>4, <1>6 DEF PhaseOK, TransactionOK
<1>8. MigrationOK(c)'
  BY <1>1, <1>2, <1>3, <1>4, <1>6 DEF MigrationOK, Looping
<1> QED
  BY <1>1, <1>2, <1>3, <1>4, <1>5, <1>7, <1>8, QuietStep DEF CallOK

-----------------------------------------------------------------------------
(* Steps that take a connection, give it back, or break it.                *)

LEMMA IdleType == Idle \in Call
<1>1. NoText \in Texts
  BY DEF Texts
<1> QED
  BY <1>1 DEF Idle, Call, Phases, NoneApplied

\* A step of a call that has no connection before it and none after.
LEMMA WithoutConnection ==
  ASSUME IndInv, NEW c \in Calls, NEW l \in Call,
         call[c].connection \notin Connections,
         l.connection = NoConnection, l.phase \in {"idle", "connecting"},
         l.phase = "idle" <=> l.kind = "none", ~l.ok, ~l.destroy, l.done = 0,
         call' = [call EXCEPT ![c] = l],
         UNCHANGED <<connection, applied, schema>>,
         rows' = [rows EXCEPT ![c] = {}] \/ UNCHANGED rows,
         faults' \in 0..MaxFaults
  PROVE  IndInv'
<1>1. /\ call \in [Calls -> Call] /\ connection \in [Connections -> Connection]
      /\ rows \in [Calls -> SUBSET {1, 2}] /\ PhaseOK(c)
  BY DEF IndInv, DatabaseTypeOK, CallOK
<1>2. rows[c] = {}
  BY <1>1 DEF PhaseOK
<1>3. /\ call'[c] = l /\ rows'[c] = {}
      /\ \A d \in Calls \ {c} : call'[d] = call[d] /\ rows'[d] = rows[d] /\ Mine(d)' = Mine(d)
  BY <1>1, <1>2 DEF Mine
<1>4. DatabaseTypeOK'
  BY <1>1 DEF DatabaseTypeOK, IndInv
<1>5. Owned'
  <2>1. Owned /\ NoConnection \notin Connections
    BY DatabaseAssumption DEF IndInv
  <2> QED
    BY <1>1, <1>3, <2>1 DEF Owned, Mine
<1>6. CallOK(c)'
  BY <1>3, DatabaseAssumption DEF CallOK, PhaseOK, TransactionOK, MigrationOK, Looping
<1>7. ASSUME NEW d \in Calls, d # c PROVE CallOK(d)'
  <2>1. CallOK(d) /\ applied' = applied
    BY DEF IndInv
  <2> QED
    BY <1>3, <1>7, <2>1, OtherCall
<1> QED
  BY <1>4, <1>5, <1>6, <1>7
     DEF IndInv, OneLock, SchemaMatchesHistory, ConnectionOK

\* A call ends and its connection is no longer in use.
LEMMA GivesUpConnection ==
  ASSUME IndInv, NEW c \in Calls, NEW s \in Connection,
         call[c].connection \in Connections,
         s.client # "busy", ConnectionOK(s), s.lock => Mine(c).lock,
         call' = [call EXCEPT ![c] = Idle],
         connection' = [connection EXCEPT ![call[c].connection] = s],
         rows' = [rows EXCEPT ![c] = {}], UNCHANGED <<applied, schema>>,
         faults' \in 0..MaxFaults
  PROVE  IndInv'
<1> DEFINE k == call[c].connection
<1>1. /\ call \in [Calls -> Call] /\ connection \in [Connections -> Connection]
      /\ rows \in [Calls -> SUBSET {1, 2}] /\ Owned /\ OneLock /\ Idle \in Call
      /\ NoConnection \notin Connections
  BY IdleType, DatabaseAssumption DEF IndInv, DatabaseTypeOK
<1>2. /\ call'[c] = Idle /\ rows'[c] = {} /\ Idle.connection = NoConnection
      /\ \A d \in Calls \ {c} : call'[d] = call[d] /\ rows'[d] = rows[d]
      /\ connection'[k] = s /\ \A j \in Connections \ {k} : connection'[j] = connection[j]
  BY <1>1 DEF Idle
<1>3. \A d \in Calls \ {c} : call[d].connection # k
  BY <1>1 DEF Owned
<1>4. DatabaseTypeOK'
  BY <1>1 DEF DatabaseTypeOK, IndInv
<1>5. Owned'
  <2>1. \A d \in Calls : call'[d].connection \in Connections => Mine(d)'.client = "busy"
    BY <1>1, <1>2, <1>3 DEF Owned, Mine
  <2>2. \A d, e \in Calls :
          call'[d].connection \in Connections /\ call'[d].connection = call'[e].connection
            => d = e
    BY <1>1, <1>2, <1>3 DEF Owned
  <2>3. \A j \in Connections :
          connection'[j].client = "busy" => \E d \in Calls : call'[d].connection = j
    BY <1>1, <1>2, <1>3 DEF Owned
  <2> QED
    BY <2>1, <2>2, <2>3 DEF Owned, Mine
<1>6. OneLock'
  BY <1>1, <1>2 DEF OneLock, Mine
<1>7. ASSUME NEW j \in Connections PROVE ConnectionOK(connection[j])'
  BY <1>2 DEF IndInv, ConnectionOK
<1>8. CallOK(c)'
  BY <1>1, <1>2 DEF Idle, CallOK, PhaseOK, TransactionOK, MigrationOK, Looping
<1>9. ASSUME NEW d \in Calls, d # c PROVE CallOK(d)'
  <2>1. call[d].connection \in Connections => Mine(d)' = Mine(d)
    BY <1>2, <1>3, <1>9 DEF Mine
  <2> QED
    BY <1>2, <1>9, <2>1, OtherCall
<1> QED
  BY <1>4, <1>5, <1>6, <1>7, <1>8, <1>9 DEF IndInv, SchemaMatchesHistory

\* A connection loses its link, or its session: what the server still holds gets no more.
LEMMA LosesConnection ==
  ASSUME IndInv, NEW k \in Connections, NEW s \in Connection,
         connection' = [connection EXCEPT ![k] = s], UNCHANGED <<call, stored>>,
         faults' \in 0..MaxFaults,
         s.client = connection[k].client, ~s.up, s.lock => connection[k].lock,
         s.tx \in {"none", connection[k].tx}, ConnectionOK(s)
  PROVE  IndInv'
<1>1. /\ connection \in [Connections -> Connection] /\ Owned /\ OneLock
      /\ UNCHANGED <<rows, applied, schema>>
  BY DEF IndInv, DatabaseTypeOK, stored
<1>2. connection'[k] = s /\ \A j \in Connections \ {k} : connection'[j] = connection[j]
  BY <1>1
<1>3. DatabaseTypeOK'
  BY <1>1 DEF DatabaseTypeOK, IndInv
<1>4. Owned'
  BY <1>1, <1>2 DEF Owned, Mine
<1>5. OneLock'
  BY <1>1, <1>2 DEF OneLock
<1>6. ASSUME NEW j \in Connections PROVE ConnectionOK(connection[j])'
  BY <1>2 DEF IndInv, ConnectionOK
<1>7. ASSUME NEW d \in Calls PROVE CallOK(d)'
  <2>1. CallOK(d)
    BY DEF IndInv
  <2>2. CASE call[d].connection = k
    <3>1. Mine(d)' = s /\ Mine(d) = connection[k] /\ call' = call
      BY <1>2, <2>2 DEF Mine
    <3>2. PhaseOK(d)' /\ TransactionOK(d)'
      BY <1>1, <2>1, <2>2, <3>1 DEF CallOK, PhaseOK, TransactionOK
    <3>3. /\ Pending(d)' = Pending(d) /\ Current(d)' = Current(d)
          /\ IsNew(d, Current(d))' <=> IsNew(d, Current(d))
      BY <3>1, SamePending
    <3>4. MigrationOK(d)'
      BY <1>1, <2>1, <2>2, <3>1, <3>3 DEF CallOK, MigrationOK
    <3> QED
      BY <3>2, <3>4 DEF CallOK
  <2>3. CASE call[d].connection # k
    <3>1. call[d].connection \in Connections => Mine(d)' = Mine(d)
      BY <1>2, <2>3 DEF Mine
    <3> QED
      BY <1>1, <3>1, OtherCall
  <2> QED
    BY <2>2, <2>3
<1> QED
  BY <1>1, <1>3, <1>4, <1>5, <1>6, <1>7 DEF IndInv, SchemaMatchesHistory

LEMMA StartInv ==
  ASSUME IndInv, NEW c \in Calls,
         StartTransaction(c) \/ \E r \in Releases : StartMigrate(c, r)
  PROVE  IndInv'
<1>1. /\ call[c].phase = "idle" /\ call[c].connection \notin Connections
      /\ call[c] \in Call /\ Idle \in Call
      /\ UNCHANGED <<connection, rows, applied, schema>> /\ faults' \in 0..MaxFaults
  BY IdleType
     DEF StartTransaction, StartMigrate, stored, IndInv, DatabaseTypeOK, CallOK, PhaseOK
<1>2. PICK l \in Call : /\ call' = [call EXCEPT ![c] = l]
                        /\ l.connection = NoConnection /\ l.phase = "connecting"
                        /\ l.kind # "none" /\ ~l.ok /\ ~l.destroy /\ l.done = 0
  <2>1. CASE StartTransaction(c)
    <3> DEFINE l == [Idle EXCEPT !.kind = "transaction", !.phase = "connecting"]
    <3>1. /\ l \in Call /\ l.connection = NoConnection /\ l.phase = "connecting"
          /\ l.kind # "none" /\ ~l.ok /\ ~l.destroy /\ l.done = 0
      BY <1>1 DEF Idle, Call, Phases
    <3> HIDE DEF l
    <3> QED
      BY <2>1, <3>1 DEF StartTransaction, l
  <2>2. ASSUME NEW r \in Releases, StartMigrate(c, r)
        PROVE  \E l \in Call : /\ call' = [call EXCEPT ![c] = l]
                               /\ l.connection = NoConnection /\ l.phase = "connecting"
                               /\ l.kind # "none" /\ ~l.ok /\ ~l.destroy /\ l.done = 0
    <3> DEFINE l == [Idle EXCEPT !.kind = "migrate", !.phase = "connecting", !.release = r]
    <3>1. /\ l \in Call /\ l.connection = NoConnection /\ l.phase = "connecting"
          /\ l.kind # "none" /\ ~l.ok /\ ~l.destroy /\ l.done = 0
      BY <1>1 DEF Idle, Call, Phases
    <3> HIDE DEF l
    <3> QED
      BY <2>2, <3>1 DEF StartMigrate, l
  <2> QED
    BY <2>1, <2>2
<1> QED
  BY <1>1, <1>2, WithoutConnection

LEMMA ConnectTimeoutInv == ASSUME IndInv, NEW c \in Calls, ConnectTimeout(c) PROVE IndInv'
<1>1. /\ call[c].connection \notin Connections
      /\ UNCHANGED <<connection, rows, applied, schema>> /\ faults' \in 0..MaxFaults
      /\ call' = [call EXCEPT ![c] = Idle]
  BY DEF ConnectTimeout, stored, IndInv, DatabaseTypeOK, CallOK, PhaseOK
<1>2. /\ Idle.connection = NoConnection /\ Idle.phase = "idle" /\ Idle.kind = "none"
      /\ ~Idle.ok /\ ~Idle.destroy /\ Idle.done = 0
  BY DEF Idle
<1> QED
  BY <1>1, <1>2, IdleType, WithoutConnection

\* A call gets a connection that no other call uses, without a transaction or a lock.
LEMMA ConnectInv == ASSUME IndInv, NEW c \in Calls, Connect(c) PROVE IndInv'
<1>1. /\ call \in [Calls -> Call] /\ connection \in [Connections -> Connection]
      /\ rows \in [Calls -> SUBSET {1, 2}] /\ Owned /\ OneLock /\ PhaseOK(c) /\ call[c] \in Call
      /\ UNCHANGED <<rows, applied, schema, faults>>
      /\ call[c].phase = "connecting" /\ call[c].connection \notin Connections
  BY DEF IndInv, DatabaseTypeOK, CallOK, PhaseOK, Connect, stored
<1>2. PICK k \in Available :
        /\ connection' = [connection EXCEPT ![k] =
             IF @.client = "idle" THEN [@ EXCEPT !.client = "busy"]
             ELSE [NoSession EXCEPT !.client = "busy", !.up = TRUE, !.session = TRUE]]
        /\ call' = [call EXCEPT ![c].connection = k,
             ![c].phase = IF call[c].kind = "migrate" THEN "locking" ELSE "beginning"]
  BY DEF Connect
<1> DEFINE l == [call[c] EXCEPT !.connection = k,
                   !.phase = IF call[c].kind = "migrate" THEN "locking" ELSE "beginning"]
           s == IF connection[k].client = "idle" THEN [connection[k] EXCEPT !.client = "busy"]
                ELSE [NoSession EXCEPT !.client = "busy", !.up = TRUE, !.session = TRUE]
<1>3. /\ k \in Connections /\ connection[k].client \in {"idle", "none"}
      /\ connection[k] \in Connection /\ ConnectionOK(connection[k])
  BY <1>1 DEF Available, IndInv
<1>4. /\ l \in Call /\ l.connection = k /\ l.kind = call[c].kind /\ l.ok = call[c].ok
      /\ l.done = call[c].done /\ l.destroy = call[c].destroy
      /\ l.phase = IF call[c].kind = "migrate" THEN "locking" ELSE "beginning"
  BY <1>1, <1>3 DEF Call, Phases
<1>5. /\ s \in Connection /\ s.client = "busy" /\ s.tx = "none" /\ ~s.lock /\ ConnectionOK(s)
  <2>1. CASE connection[k].client = "idle"
    BY <1>3, <2>1 DEF Connection, ConnectionOK
  <2>2. CASE connection[k].client # "idle"
    BY <2>2 DEF Connection, ConnectionOK, NoSession
  <2> QED
    BY <2>1, <2>2
<1>6. connection' = [connection EXCEPT ![k] = s] /\ call' = [call EXCEPT ![c] = l]
  BY <1>2
<1> HIDE DEF l, s
<1>7. /\ call'[c] = l /\ Mine(c)' = s /\ rows'[c] = rows[c]
      /\ \A d \in Calls \ {c} : call'[d] = call[d] /\ rows'[d] = rows[d]
      /\ connection'[k] = s /\ \A j \in Connections \ {k} : connection'[j] = connection[j]
  BY <1>1, <1>3, <1>4, <1>6 DEF Mine
<1>8. \A d \in Calls : call[d].connection # k
  BY <1>1, <1>3 DEF Owned, Mine
<1>9. DatabaseTypeOK'
  BY <1>1, <1>3, <1>4, <1>5, <1>6 DEF DatabaseTypeOK, IndInv
<1>10. Owned'
  <2>1. \A d \in Calls : call'[d].connection \in Connections => Mine(d)'.client = "busy"
    BY <1>1, <1>4, <1>5, <1>7, <1>8 DEF Owned, Mine
  <2>2. \A d, e \in Calls :
          call'[d].connection \in Connections /\ call'[d].connection = call'[e].connection
            => d = e
    BY <1>1, <1>4, <1>7, <1>8 DEF Owned
  <2>3. \A j \in Connections :
          connection'[j].client = "busy" => \E d \in Calls : call'[d].connection = j
    BY <1>1, <1>4, <1>7 DEF Owned
  <2> QED
    BY <2>1, <2>2, <2>3 DEF Owned, Mine
<1>11. OneLock'
  BY <1>1, <1>5, <1>7 DEF OneLock
<1>12. ASSUME NEW j \in Connections PROVE ConnectionOK(connection[j])'
  BY <1>5, <1>7 DEF IndInv, ConnectionOK
<1>13. PhaseOK(c)'
  BY <1>1, <1>3, <1>4, <1>5, <1>7, CallFields DEF PhaseOK
<1>14. TransactionOK(c)' /\ MigrationOK(c)'
  BY <1>1, <1>4, <1>5, <1>7 DEF PhaseOK, TransactionOK, MigrationOK, Looping
<1>15. ASSUME NEW d \in Calls, d # c PROVE CallOK(d)'
  <2>1. call[d].connection \in Connections => Mine(d)' = Mine(d)
    BY <1>7, <1>8, <1>15 DEF Mine
  <2> QED
    BY <1>1, <1>7, <1>15, <2>1, OtherCall
<1> QED
  BY <1>1, <1>9, <1>10, <1>11, <1>12, <1>13, <1>14, <1>15
     DEF IndInv, SchemaMatchesHistory, CallOK

\* What goes back to the pool has no transaction and no lock; the rest is dropped.
LEMMA ReleaseInv == ASSUME IndInv, NEW c \in Calls, Release(c) PROVE IndInv'
<1>1. /\ call[c].phase = "releasing" /\ UNCHANGED <<applied, schema>>
      /\ connection' = [connection EXCEPT ![call[c].connection] = Released(c)]
      /\ call' = [call EXCEPT ![c] = Idle] /\ rows' = [rows EXCEPT ![c] = {}]
      /\ faults' \in 0..MaxFaults
  BY DEF Release, Serve, IndInv, DatabaseTypeOK
<1>2. /\ call[c].connection \in Connections /\ Mine(c) \in Connection
      /\ Mine(c).client = "busy" /\ ConnectionOK(Mine(c)) /\ PhaseOK(c)
  BY <1>1, Busy
<1>3. /\ Released(c) \in Connection /\ Released(c).client # "busy"
      /\ Released(c).lock = Mine(c).lock /\ ConnectionOK(Released(c))
  <2>1. CASE call[c].destroy \/ ~Mine(c).up
    BY <1>2, <2>1 DEF Connection, Released, ConnectionOK
  <2>2. CASE ~call[c].destroy /\ Mine(c).up
    <3>1. Mine(c).tx = "none" /\ ~Mine(c).lock
      BY <1>1, <1>2, <2>2 DEF PhaseOK
    <3> QED
      BY <1>2, <2>2, <3>1 DEF Connection, Released, ConnectionOK
  <2> QED
    BY <2>1, <2>2
<1> QED
  BY <1>1, <1>2, <1>3, GivesUpConnection

LEMMA DieInv == ASSUME IndInv, NEW c \in Calls, Die(c) PROVE IndInv'
<1>1. /\ call' = [call EXCEPT ![c] = Idle] /\ rows' = [rows EXCEPT ![c] = {}]
      /\ UNCHANGED <<applied, schema>> /\ faults' \in 0..MaxFaults
      /\ call[c] \in Call /\ NoConnection \notin Connections
  BY DatabaseAssumption DEF Die, Fault, IndInv, DatabaseTypeOK
<1>2. CASE call[c].connection = NoConnection
  <2>1. /\ Idle.connection = NoConnection /\ Idle.phase = "idle" /\ Idle.kind = "none"
        /\ ~Idle.ok /\ ~Idle.destroy /\ Idle.done = 0
    BY DEF Idle
  <2>2. UNCHANGED connection
    BY <1>2 DEF Die
  <2> QED
    BY <1>1, <1>2, <2>1, <2>2, IdleType, WithoutConnection
<1>3. CASE call[c].connection # NoConnection
  <2> DEFINE s == [Mine(c) EXCEPT !.client = "none", !.up = FALSE]
  <2>1. call[c].connection \in Connections /\ call[c].phase \notin {"idle", "connecting"}
    BY <1>1, <1>3, CallFields DEF IndInv, CallOK, PhaseOK
  <2>2. Mine(c) \in Connection /\ ConnectionOK(Mine(c))
    BY <2>1, Busy
  <2>3. /\ s \in Connection /\ s.client # "busy" /\ s.lock = Mine(c).lock /\ ConnectionOK(s)
    BY <2>2 DEF Connection, ConnectionOK
  <2>4. connection' = [connection EXCEPT ![call[c].connection] = s]
    BY <1>3 DEF Die, Serve
  <2> HIDE DEF s
  <2> QED
    BY <1>1, <2>1, <2>3, <2>4, GivesUpConnection
<1> QED
  BY <1>2, <1>3

LEMMA BreakInv == ASSUME IndInv, NEW k \in Connections, Break(k) PROVE IndInv'
<1> DEFINE s == [connection[k] EXCEPT !.up = FALSE]
<1>1. connection[k] \in Connection /\ ConnectionOK(connection[k])
  BY DEF IndInv, DatabaseTypeOK
<1>2. /\ s \in Connection /\ ~s.up /\ s.client = connection[k].client /\ ConnectionOK(s)
      /\ s.lock = connection[k].lock /\ s.tx = connection[k].tx
  BY <1>1 DEF Connection, ConnectionOK
<1>3. /\ connection' = [connection EXCEPT ![k] = s] /\ UNCHANGED <<call, stored>>
      /\ faults' \in 0..MaxFaults
  BY DatabaseAssumption DEF Break, Fault, IndInv, DatabaseTypeOK
<1> HIDE DEF s
<1> QED
  BY <1>2, <1>3, LosesConnection

LEMMA SessionEndsInv == ASSUME IndInv, NEW k \in Connections, SessionEnds(k) PROVE IndInv'
<1> DEFINE s == [NoSession EXCEPT !.client = connection[k].client]
<1>1. connection[k] \in Connection
  BY DEF IndInv, DatabaseTypeOK
<1>2. /\ s \in Connection /\ ~s.up /\ s.client = connection[k].client /\ ConnectionOK(s)
      /\ ~s.lock /\ s.tx = "none"
  BY <1>1 DEF Connection, ConnectionOK, NoSession
<1>3. /\ connection' = [connection EXCEPT ![k] = s] /\ UNCHANGED <<call, stored>>
      /\ faults' \in 0..MaxFaults
  BY DEF SessionEnds, IndInv, DatabaseTypeOK
<1> HIDE DEF s
<1> QED
  BY <1>2, <1>3, LosesConnection

-----------------------------------------------------------------------------
(* The theorems.                                                           *)

LEMMA InitInv == Init => IndInv
<1> SUFFICES ASSUME Init PROVE IndInv
  OBVIOUS
<1> USE DEF Init
<1>1. NoSession \in Connection /\ ConnectionOK(NoSession) /\ ~NoSession.lock
      /\ NoSession.client = "none"
  BY DEF NoSession, Connection, ConnectionOK
<1>2. /\ Idle \in Call /\ Idle.connection = NoConnection /\ Idle.phase = "idle"
      /\ Idle.kind = "none" /\ ~Idle.ok /\ ~Idle.destroy /\ Idle.done = 0
  BY IdleType DEF Idle
<1>3. NoneApplied \in [Versions -> Texts]
  BY DEF NoneApplied, Texts
<1>4. DatabaseTypeOK
  BY <1>1, <1>2, <1>3, DatabaseAssumption DEF DatabaseTypeOK
<1>5. SchemaMatchesHistory /\ OneLock /\ \A k \in Connections : ConnectionOK(connection[k])
  BY <1>1 DEF SchemaMatchesHistory, OneLock, NoneApplied
<1>6. Owned
  BY <1>1, <1>2, DatabaseAssumption DEF Owned
<1>7. \A c \in Calls : CallOK(c)
  BY <1>2, DatabaseAssumption DEF CallOK, PhaseOK, TransactionOK, MigrationOK
<1> QED
  BY <1>4, <1>5, <1>6, <1>7 DEF IndInv

LEMMA StepInv == ASSUME IndInv, NEW c \in Calls, Step(c) PROVE IndInv'
<1>1. CASE Connect(c) \/ ConnectTimeout(c) \/ Release(c)
  BY <1>1, ConnectInv, ConnectTimeoutInv, ReleaseInv
<1>2. CASE RollBack(c)
  BY <1>2, RollBackInv
<1>3. CASE RollBackFails(c)
  BY <1>3, GivenUpInv DEF RollBackFails
<1>4. CASE BeginFails(c) \/ Begin(c) \/ Work(c) \/ WorkFails(c) \/ Commit(c)
           \/ CommitAnswerLost(c)
  BY <1>4, BeginFailsInv, BeginInv, WorkInv, WorkFailsInv, CommitInv, CommitAnswerLostInv
<1>5. CASE Lock(c) \/ LockFails(c) \/ ReadHistory(c) \/ FinishLoop(c) \/ Mismatch(c)
  BY <1>5, LockInv, LockFailsInv, ReadHistoryInv, LoopEndsInv
<1>6. CASE BeginMigration(c) \/ MigrateQueryFails(c) \/ RunSql(c) \/ Record(c)
           \/ CommitMigration(c) \/ CommitMigrationFails(c)
  BY <1>6, BeginMigrationInv, MigrateQueryFailsInv, RunSqlInv, RecordInv, CommitMigrationInv,
     CommitMigrationFailsInv
<1>7. CASE Unlock(c)
  BY <1>7, UnlockInv
<1>8. CASE UnlockFails(c)
  BY <1>8, GivenUpInv DEF UnlockFails
<1> QED
  BY <1>1, <1>2, <1>3, <1>4, <1>5, <1>6, <1>7, <1>8 DEF Step

LEMMA NextInv == IndInv /\ [Next]_vars => IndInv'
<1> SUFFICES ASSUME IndInv, [Next]_vars PROVE IndInv'
  OBVIOUS
<1>1. CASE UNCHANGED vars
  <2>1. \A c \in Calls : CallOK(c)'
    <3> TAKE c \in Calls
    <3>1. call'[c] = call[c] /\ rows'[c] = rows[c] /\ Mine(c)' = Mine(c) /\ applied' = applied
      BY <1>1 DEF vars, stored, Mine
    <3> QED
      BY <3>1, OtherCall
  <2> QED
    BY <1>1, <2>1 DEF vars, stored, IndInv, DatabaseTypeOK, SchemaMatchesHistory, Owned, Mine,
                      OneLock, ConnectionOK
<1>2. ASSUME NEW c \in Calls, StartTransaction(c) \/ Step(c) \/ Die(c) PROVE IndInv'
  BY <1>2, StartInv, StepInv, DieInv
<1>3. ASSUME NEW c \in Calls, NEW r \in Releases, StartMigrate(c, r) PROVE IndInv'
  BY <1>3, StartInv
<1>4. ASSUME NEW k \in Connections, Break(k) \/ SessionEnds(k) PROVE IndInv'
  BY <1>4, BreakInv, SessionEndsInv
<1> QED
  BY <1>1, <1>2, <1>3, <1>4 DEF Next

\* The inductive invariant holds in every state of the pool, its calls and the server.
THEOREM Invariance == Spec => []IndInv
<1>1. Spec => Init /\ [][Next]_vars
  BY PTL DEF Spec
<1> QED
  BY InitInv, NextInv, <1>1, PTL

\* Types: in particular no migration is ever committed twice.
THEOREM TypeCorrect == Spec => []DatabaseTypeOK
<1>1. IndInv => DatabaseTypeOK
  BY DEF IndInv
<1> QED
  BY Invariance, <1>1, PTL

\* Node-pg pool: no connection waits for its next call with a transaction or the migration
\* lock, and a connection in use belongs to one call.
THEOREM PoolStaysClean == Spec => []PoolIsClean
<1>1. IndInv => PoolIsClean
  <2> SUFFICES ASSUME IndInv, NEW k \in Connections
               PROVE  /\ connection[k].client = "idle"
                           => connection[k].tx = "none" /\ ~connection[k].lock
                      /\ Cardinality({c \in Calls : call[c].connection = k})
                           = IF connection[k].client = "busy" THEN 1 ELSE 0
    BY DEF PoolIsClean
  <2>1. connection[k].client = "idle" => connection[k].tx = "none" /\ ~connection[k].lock
    BY DEF IndInv, ConnectionOK
  <2>2. CASE connection[k].client = "busy"
    <3>1. PICK c \in Calls : call[c].connection = k
      BY <2>2 DEF IndInv, Owned
    <3>2. {d \in Calls : call[d].connection = k} = {c}
      BY <3>1 DEF IndInv, Owned
    <3> QED
      BY <2>1, <2>2, <3>2, FS_Singleton
  <2>3. CASE connection[k].client # "busy"
    <3>1. {d \in Calls : call[d].connection = k} = {}
      BY <2>3 DEF IndInv, Owned, Mine
    <3> QED
      BY <2>1, <2>3, <3>1, FS_EmptySet
  <2> QED
    BY <2>2, <2>3
<1> QED
  BY Invariance, <1>1, PTL

\* transaction(): all of the work is committed or none of it, and all of it when the call
\* returns, wherever a statement fails, the link breaks or an answer is lost.
THEOREM TransactionsAreAtomic == Spec => []TransactionIsAtomic
<1>1. IndInv => TransactionIsAtomic
  <2> SUFFICES ASSUME IndInv, NEW c \in Calls
               PROVE  /\ rows[c] \in {{}, {1, 2}}
                      /\ At(c, "transaction", "releasing") /\ call[c].ok => rows[c] = {1, 2}
    BY DEF TransactionIsAtomic
  <2>1. call[c] \in Call /\ PhaseOK(c) /\ TransactionOK(c) /\ MigrationOK(c)
    BY DEF IndInv, DatabaseTypeOK, CallOK
  <2>2. rows[c] \in {{}, {1, 2}}
    BY <2>1, CallFields DEF PhaseOK, TransactionOK, MigrationOK
  <2> QED
    BY <2>1, <2>2 DEF TransactionOK, At
<1> QED
  BY Invariance, <1>1, PTL

\* migrate(): the schema is what foundation_schema_migrations says, for any number of runners
\* at the same time and any faults.
THEOREM SchemaAgreesWithHistory == Spec => []SchemaMatchesHistory
<1>1. IndInv => SchemaMatchesHistory
  BY DEF IndInv
<1> QED
  BY Invariance, <1>1, PTL

\* migrate() that returns with the lock has applied its release, and nothing else.
THEOREM MigrateAppliesRelease == Spec => MigratedMeansApplied
<1>1. IndInv /\ [Next]_vars
        => [\A c \in Calls : At(c, "migrate", "looping") /\ call'[c].ok /\ Mine(c).lock
              => applied = call[c].release]_vars
  <2> SUFFICES ASSUME IndInv, Next, NEW c \in Calls,
                      call[c].kind = "migrate", call[c].phase = "looping",
                      call'[c].ok, Mine(c).lock
               PROVE  applied = call[c].release
    BY DEF At
  <2>1. /\ call \in [Calls -> Call] /\ MigrationOK(c) /\ applied \in [Versions -> Texts]
        /\ call[c] \in Call
    BY DEF IndInv, DatabaseTypeOK, CallOK
  <2>2. ~call[c].ok /\ call[c].seen = applied
    BY <2>1 DEF MigrationOK, Looping
  <2>3. FinishLoop(c)
    <3>1. ASSUME NEW d \in Calls, d # c,
                 StartTransaction(d) \/ Step(d) \/ Die(d)
                   \/ \E r \in Releases : StartMigrate(d, r)
          PROVE  call'[c] = call[c]
      BY <2>1, <3>1 DEF StartTransaction, Step, Die, StartMigrate, Connect, ConnectTimeout, Release,
        RollBack, RollBackFails, BeginFails, Begin, Work, WorkFails, Commit, CommitAnswerLost,
        Lock, LockFails, ReadHistory, FinishLoop, Mismatch, BeginMigration, MigrateQueryFails,
        RunSql, Record, CommitMigration, CommitMigrationFails, Unlock, UnlockFails, Goto
    <3>2. ASSUME NEW k \in Connections, Break(k) \/ SessionEnds(k) PROVE call'[c] = call[c]
      BY <3>2 DEF Break, SessionEnds
    <3>3. ~StartTransaction(c) /\ \A r \in Releases : ~StartMigrate(c, r)
      BY DEF StartTransaction, StartMigrate
    <3>4. ~Die(c)
      BY <2>1 DEF Die, Idle
    <3>5. Step(c)
      BY <2>2, <3>1, <3>2, <3>3, <3>4 DEF Next
    <3>6. Mismatch(c) \/ BeginMigration(c) \/ MigrateQueryFails(c) => call'[c].ok = call[c].ok
      <4>1. ASSUME NEW p, Goto(c, p) PROVE call'[c].ok = call[c].ok
        <5>1. call'[c] = [call[c] EXCEPT !.phase = p]
          BY <2>1, <4>1 DEF Goto
        <5>2. [call[c] EXCEPT !.phase = p].ok = call[c].ok
          BY <2>1 DEF Call
        <5> QED
          BY <5>1, <5>2
      <4> QED
        BY <4>1 DEF Mismatch, BeginMigration, MigrateQueryFails
    <3> QED
      BY <2>2, <3>5, <3>6
         DEF Step, Connect, ConnectTimeout, Release, RollBack, RollBackFails, BeginFails, Begin,
             Work, WorkFails, Commit, CommitAnswerLost, Lock, LockFails, ReadHistory, RunSql,
             Record, CommitMigration, CommitMigrationFails, Unlock, UnlockFails, At
  <2>4. \A v \in Versions : call[c].release[v] # NoText => applied[v] = call[c].release[v]
    BY <2>2, <2>3 DEF FinishLoop, Pending
  <2>5. \A v \in Versions : applied[v] # NoText => call[c].release[v] # NoText
    BY <2>1, <2>2 DEF MigrationOK, Looping
  <2>6. \A v \in Versions : applied[v] = call[c].release[v]
    BY <2>4, <2>5
  <2>7. call[c].release \in [Versions -> Texts]
    <3>1. call[c].release = [v \in Versions |-> call[c].release[v]]
      BY <2>1, CallFields, DatabaseAssumption DEF NoneApplied
    <3>2. \A v \in Versions : call[c].release[v] \in Texts
      BY <2>1, ReleaseTexts
    <3> QED
      BY <3>1, <3>2
  <2> QED
    BY <2>1, <2>6, <2>7
<1>2. Spec => Init /\ [][Next]_vars
  BY PTL DEF Spec
<1> QED
  BY Invariance, <1>1, <1>2, PTL DEF MigratedMeansApplied
=============================================================================
