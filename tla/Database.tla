------------------------------ MODULE Database ------------------------------
(***************************************************************************)
(* packages/data-postgres: the connections of a pool (node-pg.ts), the     *)
(* transactions that run on them (database.ts) and the migration runner    *)
(* (migrations.ts), which keeps one connection for its advisory lock and   *)
(* its own transactions.                                                   *)
(*                                                                         *)
(* A connection has two ends.  When the link breaks the client sees its    *)
(* next query fail; the server still holds the open transaction and the    *)
(* lock until it notices that its peer is gone.                            *)
(***************************************************************************)
EXTENDS Naturals, FiniteSets

CONSTANTS Calls,        \* calls of transaction() and of migrate() at the same time
          Connections,  \* the sessions the server can hold
          PoolMax,      \* max: connections of the pool
          NoConnection,
          Last,         \* migrations have versions in 1 .. Last
          NoText,       \* no such migration
          Releases,     \* the migrations directories of the releases that are started
          MaxFaults     \* bound on broken links, failing statements and dying processes

Versions == 1..Last

ASSUME DatabaseAssumption ==
  /\ NoConnection \notin Connections
  /\ Last \in Nat /\ PoolMax \in Nat \ {0} /\ MaxFaults \in Nat
  /\ \A r \in Releases : r = [v \in Versions |-> r[v]]

VARIABLES connection, call,
          rows,     \* the committed rows of the running transaction() of each call
          applied,  \* foundation_schema_migrations: the checksum of each version
          schema,   \* how many times the statements of each version were committed
          faults

stored == <<rows, applied, schema>>
vars == <<connection, call, stored, faults>>

Texts == {NoText} \union UNION {{r[v] : v \in Versions} : r \in Releases}

\* client: what the pool knows of the connection; up: the link.  The rest is the server's:
\* the session, its transaction and what that wrote, the advisory lock.
Connection == [client : {"none", "idle", "busy"}, up : BOOLEAN, session : BOOLEAN,
               tx : {"none", "open", "aborted"}, lock : BOOLEAN,
               writes : SUBSET {1, 2}, ran : SUBSET Versions, recorded : SUBSET Versions]

NoSession == [client |-> "none", up |-> FALSE, session |-> FALSE, tx |-> "none",
              lock |-> FALSE, writes |-> {}, ran |-> {}, recorded |-> {}]

Phases == {"idle", "connecting", "beginning", "working", "committing", "rolling-back",
           "locking", "reading", "looping", "running", "recording", "unlocking", "releasing"}

\* done: statements the work has run.  seen: the versions known to be applied.
Call == [kind : {"none", "transaction", "migrate"}, phase : Phases,
         connection : Connections \union {NoConnection}, destroy : BOOLEAN,
         ok : BOOLEAN, done : 0..2,
         release : Releases \union {[v \in Versions |-> NoText]}, seen : [Versions -> Texts]]

NoneApplied == [v \in Versions |-> NoText]

Idle == [kind |-> "none", phase |-> "idle", connection |-> NoConnection, destroy |-> FALSE,
         ok |-> FALSE, done |-> 0, release |-> NoneApplied, seen |-> NoneApplied]

Init ==
  /\ connection = [k \in Connections |-> NoSession]
  /\ call = [c \in Calls |-> Idle]
  /\ rows = [c \in Calls |-> {}]
  /\ applied = NoneApplied
  /\ schema = [v \in Versions |-> 0]
  /\ faults = 0

-----------------------------------------------------------------------------
(* Calls and their queries.                                                *)

Mine(c) == connection[call[c].connection]

At(c, kind, phase) == call[c].kind = kind /\ call[c].phase = phase

Goto(c, phase) == call' = [call EXCEPT ![c].phase = phase]

Serve(c, s) == connection' = [connection EXCEPT ![call[c].connection] = s]

\* A query is answered, and leaves the server's end as s.
Query(c, s) == Mine(c).up /\ Serve(c, s) /\ UNCHANGED faults

Fault == faults < MaxFaults /\ faults' = faults + 1

\* A query on a broken link or in an aborted transaction is an error.  Another one can be
\* an error too (a constraint, a statement timeout), which aborts its transaction.
QueryFails(c) ==
  \/ (~Mine(c).up \/ Mine(c).tx = "aborted") /\ UNCHANGED <<connection, faults>>
  \/ /\ Mine(c).up
     /\ Fault
     /\ Serve(c, [Mine(c) EXCEPT !.tx = IF @ = "open" THEN "aborted" ELSE @])

Ended(s) == [s EXCEPT !.tx = "none", !.writes = {}, !.ran = {}, !.recorded = {}]

-----------------------------------------------------------------------------
(* Plausible bugs: each stands in for a definition below, to test the checks. *)

\* The statement of the nested call runs on a connection of its own.
OwnConnection(c) ==
  IF call[c].done = 0 THEN {call[c].connection}
  ELSE {k \in Connections : connection[k].client = "idle" /\ connection[k].tx = "none"}

\* A connection whose ROLLBACK or unlock failed goes back to the pool.
ReleasedAnyway(c) == [Mine(c) EXCEPT !.client = IF @ = "busy" /\ Mine(c).up THEN "idle" ELSE "none",
                                     !.up = Mine(c).up]

\* The migration runs without a transaction of its own.
NotOpened(s) == s

\* The runner takes every recorded version for applied, whatever its text.
OnlyUnseen(c) ==
  {v \in Versions : call[c].release[v] # NoText /\ call[c].seen[v] = NoText}

-----------------------------------------------------------------------------
StartTransaction(c) ==
  /\ call[c].phase = "idle"
  /\ call' = [call EXCEPT ![c] = [Idle EXCEPT !.kind = "transaction", !.phase = "connecting"]]
  /\ UNCHANGED <<connection, stored, faults>>

\* loadMigrations has read the directory, refused bad names and sorted the versions.
StartMigrate(c, r) ==
  /\ call[c].phase = "idle"
  /\ call' = [call EXCEPT ![c] = [Idle EXCEPT !.kind = "migrate", !.phase = "connecting",
                                              !.release = r]]
  /\ UNCHANGED <<connection, stored, faults>>

Pooled == {k \in Connections : connection[k].client # "none"}

Available ==
  {k \in Connections : \/ connection[k].client = "idle"
                       \/ /\ connection[k].client = "none" /\ ~connection[k].session
                          /\ Cardinality(Pooled) < PoolMax}

\* pool.connect: an idle connection (its link may be broken by now) or a new one.
Connect(c) ==
  /\ call[c].phase = "connecting"
  /\ \E k \in Available :
       /\ connection' = [connection EXCEPT ![k] =
            IF @.client = "idle" THEN [@ EXCEPT !.client = "busy"]
            ELSE [NoSession EXCEPT !.client = "busy", !.up = TRUE, !.session = TRUE]]
       /\ call' = [call EXCEPT ![c].connection = k,
            ![c].phase = IF call[c].kind = "migrate" THEN "locking" ELSE "beginning"]
  /\ UNCHANGED <<stored, faults>>

\* connectionTimeoutMillis: no connection became available in time.
ConnectTimeout(c) ==
  /\ call[c].phase = "connecting"
  /\ Available = {}
  /\ call' = [call EXCEPT ![c] = Idle]
  /\ UNCHANGED <<connection, stored, faults>>

\* pg drops a released connection that is destroyed or whose link is known to be broken;
\* the server ends the session when it sees that.
Released(c) == IF call[c].destroy \/ ~Mine(c).up
               THEN [Mine(c) EXCEPT !.client = "none", !.up = FALSE]
               ELSE [Mine(c) EXCEPT !.client = "idle"]

Release(c) ==
  /\ call[c].phase = "releasing"
  /\ Serve(c, Released(c))
  /\ call' = [call EXCEPT ![c] = Idle]
  /\ rows' = [rows EXCEPT ![c] = {}]
  /\ UNCHANGED <<applied, schema, faults>>

\* ROLLBACK; when it fails the state of the connection is unknown.  migrate goes on to
\* unlock, unless the connection is to be destroyed.
AfterRollBack(c) == IF call[c].kind = "migrate" THEN "unlocking" ELSE "releasing"

RollBack(c) ==
  /\ call[c].phase = "rolling-back"
  /\ Query(c, Ended(Mine(c)))
  /\ Goto(c, AfterRollBack(c))
  /\ UNCHANGED stored

RollBackFails(c) ==
  /\ call[c].phase = "rolling-back"
  /\ QueryFails(c)
  /\ call' = [call EXCEPT ![c].phase = "releasing", ![c].destroy = TRUE]
  /\ UNCHANGED stored

-----------------------------------------------------------------------------
(* transaction(): BEGIN, the work, COMMIT.  The work of the model writes   *)
(* two rows, the second inside a nested transaction().                     *)

BeginFails(c) ==
  /\ At(c, "transaction", "beginning")
  /\ QueryFails(c)
  /\ Goto(c, "releasing")
  /\ UNCHANGED stored

Begin(c) ==
  /\ At(c, "transaction", "beginning")
  /\ Query(c, [Mine(c) EXCEPT !.tx = "open"])
  /\ Goto(c, "working")
  /\ UNCHANGED stored

\* The connection of the running transaction, which a nested transaction() joins.
Executor(c) == {call[c].connection}

\* A statement of the work; outside a transaction it commits by itself.
Work(c) ==
  /\ At(c, "transaction", "working")
  /\ call[c].done < 2
  /\ \E k \in Executor(c) :
       /\ connection[k].up /\ connection[k].tx # "aborted"
       /\ IF connection[k].tx = "open"
          THEN /\ connection' = [connection EXCEPT ![k].writes = @ \union {call[c].done + 1}]
               /\ UNCHANGED rows
          ELSE /\ rows' = [rows EXCEPT ![c] = @ \union {call[c].done + 1}]
               /\ UNCHANGED connection
  /\ call' = [call EXCEPT ![c].done = @ + 1]
  /\ UNCHANGED <<applied, schema, faults>>

\* What an error of the work leads to: the code that runs in a transaction lets it out.
AfterError(c) == "rolling-back"

\* A statement fails, or the work itself throws.
WorkFails(c) ==
  /\ At(c, "transaction", "working")
  /\ QueryFails(c)
  /\ Goto(c, AfterError(c))
  /\ UNCHANGED stored

\* COMMIT; of an aborted transaction it is a ROLLBACK that succeeds.
Committed(c, s) == IF s.tx = "open" THEN s.writes ELSE {}

Commit(c) ==
  /\ At(c, "transaction", "working")
  /\ call[c].done = 2
  /\ Query(c, Ended(Mine(c)))
  /\ rows' = [rows EXCEPT ![c] = @ \union Committed(c, Mine(c))]
  /\ call' = [call EXCEPT ![c].phase = "releasing", ![c].ok = TRUE]
  /\ UNCHANGED <<applied, schema>>

\* The server commits and the answer is lost: the caller hears of a failure.
CommitAnswerLost(c) ==
  /\ At(c, "transaction", "working")
  /\ call[c].done = 2
  /\ Mine(c).up
  /\ Fault
  /\ Serve(c, [Ended(Mine(c)) EXCEPT !.up = FALSE])
  /\ rows' = [rows EXCEPT ![c] = @ \union Committed(c, Mine(c))]
  /\ Goto(c, "rolling-back")
  /\ UNCHANGED <<applied, schema>>

-----------------------------------------------------------------------------
(* migrate(): the advisory lock, then a transaction for every new version. *)

LockIsFree == \A k \in Connections : ~connection[k].lock

Lock(c) ==
  /\ call[c].phase = "locking"
  /\ LockIsFree
  /\ Query(c, [Mine(c) EXCEPT !.lock = TRUE])
  /\ Goto(c, "reading")
  /\ UNCHANGED stored

\* The link is broken (the server may have granted the lock before it notices), or the
\* statement fails on a live one, after a wait for the lock (statement timeout) or without.
\* Not locked, so nothing is unlocked.
LockFails(c) ==
  /\ call[c].phase = "locking"
  /\ \/ ~Mine(c).up /\ \E granted \in BOOLEAN :
          /\ granted => LockIsFree /\ Mine(c).session
          /\ Serve(c, [Mine(c) EXCEPT !.lock = granted])
     \/ Mine(c).up /\ UNCHANGED connection
  /\ Goto(c, "releasing")
  /\ UNCHANGED <<stored, faults>>

\* assertAppliedHistoryPresent
HistoryPresent(c) == \A v \in Versions : applied[v] # NoText => call[c].release[v] # NoText

\* ensureMigrationTable and appliedMigrations
ReadHistory(c) ==
  /\ call[c].phase = "reading"
  /\ Query(c, Mine(c))
  /\ IF HistoryPresent(c)
     THEN call' = [call EXCEPT ![c].phase = "looping", ![c].seen = applied]
     ELSE Goto(c, "unlocking")
  /\ UNCHANGED stored

\* The versions of the release the loop has still to stop at, in order: those that are
\* not applied, and those applied with another text.
Pending(c) ==
  {v \in Versions : call[c].release[v] # NoText /\ call[c].seen[v] # call[c].release[v]}

Current(c) == CHOOSE v \in Pending(c) : \A w \in Pending(c) : v <= w

FinishLoop(c) ==
  /\ call[c].phase = "looping"
  /\ Pending(c) = {}
  /\ call' = [call EXCEPT ![c].phase = "unlocking", ![c].ok = TRUE]
  /\ UNCHANGED <<connection, stored, faults>>

IsNew(c, v) == call[c].seen[v] = NoText

\* An applied migration must have the text it was applied with.
Mismatch(c) ==
  /\ call[c].phase = "looping"
  /\ Pending(c) # {} /\ ~IsNew(c, Current(c))
  /\ Goto(c, "unlocking")
  /\ UNCHANGED <<connection, stored, faults>>

\* The state of the connection after BEGIN.
Opened(s) == [s EXCEPT !.tx = "open"]

BeginMigration(c) ==
  /\ call[c].phase = "looping"
  /\ Pending(c) # {} /\ IsNew(c, Current(c))
  /\ Query(c, Opened(Mine(c)))
  /\ Goto(c, "running")
  /\ UNCHANGED stored

\* Every query of migrate() but BEGIN, COMMIT and those of the lock.
MigrateQueryFails(c) ==
  /\ call[c].phase \in {"reading", "running", "recording"}
                       \union IF Pending(c) # {} THEN {"looping"} ELSE {}
  /\ QueryFails(c)
  /\ Goto(c, IF call[c].phase \in {"running", "recording"} THEN "rolling-back"
               ELSE "unlocking")
  /\ UNCHANGED stored

\* The statements of the migration.
RunSql(c) ==
  /\ call[c].phase = "running"
  /\ Mine(c).tx # "aborted"
  /\ IF Mine(c).tx = "open"
     THEN Query(c, [Mine(c) EXCEPT !.ran = @ \union {Current(c)}]) /\ UNCHANGED schema
     ELSE Query(c, Mine(c)) /\ schema' = [schema EXCEPT ![Current(c)] = @ + 1]
  /\ Goto(c, "recording")
  /\ UNCHANGED <<rows, applied>>

\* INSERT of the record; the version is the primary key.
Record(c) ==
  /\ call[c].phase = "recording"
  /\ Mine(c).tx # "aborted"
  /\ IF applied[Current(c)] # NoText
     THEN /\ Serve(c, [Mine(c) EXCEPT !.tx = "aborted"])
          /\ Goto(c, "rolling-back")
          /\ UNCHANGED faults
     ELSE /\ Query(c, [Mine(c) EXCEPT !.recorded = @ \union {Current(c)}])
          /\ Goto(c, "committing")
  /\ UNCHANGED stored

\* The server commits the migration in the transaction of the connection.
CommitOnServer(c) ==
  /\ schema' = [v \in Versions |-> schema[v] + (IF v \in Mine(c).ran THEN 1 ELSE 0)]
  /\ applied' = [v \in Versions |->
                   IF v \in Mine(c).recorded THEN call[c].release[v] ELSE applied[v]]
  /\ UNCHANGED rows

CommitMigration(c) ==
  /\ call[c].phase = "committing"
  /\ Query(c, Ended(Mine(c)))
  /\ CommitOnServer(c)
  /\ call' = [call EXCEPT ![c].phase = "looping",
                          ![c].seen[Current(c)] = call[c].release[Current(c)]]

\* COMMIT fails; the server may have committed before the link broke.
CommitMigrationFails(c) ==
  /\ call[c].phase = "committing"
  /\ \/ QueryFails(c) /\ UNCHANGED stored
     \/ /\ Mine(c).up
        /\ Fault
        /\ Serve(c, [Ended(Mine(c)) EXCEPT !.up = FALSE])
        /\ CommitOnServer(c)
  /\ Goto(c, "rolling-back")

Unlock(c) ==
  /\ call[c].phase = "unlocking"
  /\ Query(c, [Mine(c) EXCEPT !.lock = FALSE])
  /\ Goto(c, "releasing")
  /\ UNCHANGED stored

UnlockFails(c) ==
  /\ call[c].phase = "unlocking"
  /\ QueryFails(c)
  /\ call' = [call EXCEPT ![c].phase = "releasing", ![c].destroy = TRUE]
  /\ UNCHANGED stored

-----------------------------------------------------------------------------
(* What goes wrong.                                                        *)

Break(k) ==
  /\ connection[k].up
  /\ Fault
  /\ connection' = [connection EXCEPT ![k].up = FALSE]
  /\ UNCHANGED <<call, stored>>

\* The server notices that its peer is gone: the session ends, with all it holds.
SessionEnds(k) ==
  /\ connection[k].session /\ ~connection[k].up
  /\ connection' = [connection EXCEPT ![k] = [NoSession EXCEPT !.client = connection[k].client]]
  /\ UNCHANGED <<call, stored, faults>>

\* The process of the call dies; its connection is left to the server.
Die(c) ==
  /\ call[c].phase # "idle"
  /\ Fault
  /\ call' = [call EXCEPT ![c] = Idle]
  /\ rows' = [rows EXCEPT ![c] = {}]
  /\ UNCHANGED <<applied, schema>>
  /\ IF call[c].connection = NoConnection THEN UNCHANGED connection
     ELSE Serve(c, [Mine(c) EXCEPT !.client = "none", !.up = FALSE])

Step(c) ==
  \/ Connect(c) \/ ConnectTimeout(c) \/ Release(c) \/ RollBack(c) \/ RollBackFails(c)
  \/ BeginFails(c) \/ Begin(c) \/ Work(c) \/ WorkFails(c) \/ Commit(c) \/ CommitAnswerLost(c)
  \/ Lock(c) \/ LockFails(c) \/ ReadHistory(c) \/ FinishLoop(c) \/ Mismatch(c)
  \/ BeginMigration(c) \/ MigrateQueryFails(c) \/ RunSql(c) \/ Record(c)
  \/ CommitMigration(c) \/ CommitMigrationFails(c) \/ Unlock(c) \/ UnlockFails(c)

Next ==
  \/ \E c \in Calls : StartTransaction(c) \/ Step(c) \/ Die(c)
  \/ \E c \in Calls, r \in Releases : StartMigrate(c, r)
  \/ \E k \in Connections : Break(k) \/ SessionEnds(k)

\* A call in progress goes on: every query is answered or times out, and so does the wait
\* for a connection and for the lock.  The server finds out about a dead peer.
Fairness ==
  /\ \A c \in Calls : WF_vars(Step(c))
  /\ \A k \in Connections : WF_vars(SessionEnds(k))

Spec == Init /\ [][Next]_vars /\ Fairness
-----------------------------------------------------------------------------
(* Properties.                                                             *)

\* Types.
DatabaseTypeOK ==
  /\ connection \in [Connections -> Connection]
  /\ call \in [Calls -> Call]
  /\ rows \in [Calls -> SUBSET {1, 2}]
  /\ applied \in [Versions -> Texts]
  /\ schema \in [Versions -> 0..1]
  /\ faults \in 0..MaxFaults

\* What transaction() and migrate() leave in the pool: a connection that waits for the next
\* call holds no transaction and no migration lock on the server, and a connection in use
\* belongs to exactly one call.
PoolIsClean ==
  \A k \in Connections :
    /\ connection[k].client = "idle" => connection[k].tx = "none" /\ ~connection[k].lock
    /\ Cardinality({c \in Calls : call[c].connection = k})
         = IF connection[k].client = "busy" THEN 1 ELSE 0

\* transaction() commits all of the work or nothing of it, nested calls included, and one
\* that returns has committed it.
TransactionIsAtomic ==
  \A c \in Calls :
    /\ rows[c] \in {{}, {1, 2}}
    /\ At(c, "transaction", "releasing") /\ call[c].ok => rows[c] = {1, 2}

\* migrate(): the statements of a migration are committed exactly once, and only together
\* with their record in foundation_schema_migrations, whatever breaks and wherever.
SchemaMatchesHistory ==
  \A v \in Versions : schema[v] = IF applied[v] # NoText THEN 1 ELSE 0

\* A migrate() that returns while it holds the lock leaves exactly the migrations of its
\* release applied, each with the text of that release.
MigratedMeansApplied ==
  [][\A c \in Calls :
       At(c, "migrate", "looping") /\ call'[c].ok /\ Mine(c).lock
         => applied = call[c].release]_vars

\* The lock of migrate() is given back: by the call, or by the server when the process or
\* the link dies.
LockIsFreed == \A k \in Connections : connection[k].lock ~> ~connection[k].lock
=============================================================================
