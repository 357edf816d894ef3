# TLA+ verification of the TAYMEX foundation

This directory specifies, model-checks and proves parts of the TAYMEX backend: the packages under
`packages/` and the API under `apps/api/`. Paths below are relative to the repository root.
`PROJECT.json` maps every definition that models code to the lines it models, and lists the runs,
the mutants, the hazards of the code and the theorems.

    tlc -workers 2 -config outbox_race.cfg MCNotificationOutbox     # one run
    tlapm NotificationOutboxProofs.tla                              # the proofs of a component

## 1. Inventory

TAYMEX is a TypeScript monorepo in its foundation phases (F0-F9). What runs is a NestJS API over a
few packages, each a service class with a store interface and a PostgreSQL store. There are no
threads inside a process; concurrency comes from (a) every `await`, at which other requests of the
same process run, and (b) several processes over one database. State lives in PostgreSQL, in files
(media) and in per-process memory (rate limiter, throttle).

| Component | State | Operations | Talks to | What is hard | What makes it correct |
|---|---|---|---|---|---|
| **Notification outbox** `packages/notifications` | table `foundation_outbox_messages` | `deliver`/`enqueue`, `processOnce` = `claimBatch`, decrypt, `resolve`, `send`, `markDelivered`/`markFailed`/`markDead` | the identity service enqueues in its transaction; an external e-mail provider; a recipient resolver over accounts | leases that expire during a slow send, crashes holding leases, lost replies of the provider and of the database, retry budget | at-least-once, fenced marks, one message per event, every message settled |
| **Idempotency store** `packages/data-postgres/src/idempotency.ts` | table `foundation_idempotency_keys` | `claim` (insert, select for update, reclaim), `complete` | callers that run a command once per key | insert and reclaim races under READ COMMITTED, stale owners, lost COMMIT replies, caller-supplied time | one owner per generation, fenced completion, authentic replay |
| **Identity: accounts, credentials, sessions, challenges** `packages/identity/src/authentication.ts` | four tables with row versions | provision, sign-in, authenticate, rotate, sign-out, sign-out-all, change password, request/complete reset, request/complete verification, set status | audit (in the transaction), outbox (delivery of challenge secrets), throttle, roles | reads outside the transaction that writes, scrypt between read and write, whole-row writes, revoke-all against a concurrent insert | revocation is final, rotation is exclusive, a password is replaced once, no lost update |
| Identity: role access `roles.ts`, `postgres-role-access-store.ts` | roles, permissions, role sets, versions | create, replace permissions, assign, resolve | audit, session authentication | delete-and-insert of permissions while others resolve; permissions resolved once per request | one line of versions, each audited; a change was authorized when its request ran |
| Identity: throttle `throttle.ts`, `process-authentication-throttle.ts` | counters per key | assert, record failure, reset | sign-in | guesses verified at the same time, late failures, eviction of a full table | bounded wrong guesses, expired entries go first |
| Password hashing `password.ts` | - | hash, verify | sign-in, passwords | - | cryptography |
| Transaction boundary and pool `database.ts`, `atomic.ts`, `node-pg.ts` | connection, async-local client | query, transaction (nested calls join the outer one) | everything | COMMIT/ROLLBACK failures, release of connections | all or nothing; no broken connection returned |
| Migration runner `migrations.ts` | history table, advisory lock | `migrate` | process start | concurrent runners, crash between migrations | each migration once, in order |
| Settings runtime `packages/settings-runtime` | values, history, applied versions | resolve, write, rollback, mark applied, diagnostic | audit | compare-and-write, stale "before" values, applied version races | history is gapless, applied never exceeds written |
| Audit `packages/audit` | append-only log | record, query | inside the caller's transaction | part of other protocols | an audited change and its record commit together |
| Media storage `packages/media-storage` | two files per object | upload, download, delete | audit, authorisation | crash between files, compensation after a failed audit | no half object is served, no resurrection |
| Image sanitizer and validation | - | scan containers, decode, strip | upload | chunk and segment order tracked by flags | exactly the well-formed files pass |
| HTTP guard and rate limiter `apps/api/src/platform` | buckets per route and client | consume, evict | every request | full table | limit per window |
| API routes and wiring | - | parse, delegate | all services | - | - |
| Catalog products `apps/api/src/modules/catalog` | product with version | create, update, change status | a repository port with no implementation here; `catalog.module.ts` registers nothing yet | optimistic versions, rules judged on a row loaded earlier | one line of versions, archived is final, prices are money |
| Foundation values `packages/foundation` | - | decimal, money, quantity, clock | catalog | rounding | exact arithmetic |
| Observability, web application, generators, blueprints, contracts, operations | - | logging, presentation, build tooling | - | - | - |

Two facts of the wiring matter for what follows. `apps/api/src/platform/runtime.ts` schedules no
outbox processor (`docs/FOUNDATION_F7_FILES_SIDE_EFFECTS_REPORT.md:102`: "No scheduler is introduced
by F7"), so how many processors run, and when, is open:
the model lets any number of them call `processOnce` at any time. `rotateCurrentSession` and
`changePassword` have no HTTP route yet; they are operations of the service all the same.

## 2. Plan

The order is by how much damage a wrong interleaving does, and by how far the code can be checked
without a stub for missing parts.

1. `NotificationOutbox` with `DeliveryContract` - modelled, proved.
2. `IdempotencyKeys` with `IdempotencyContract` - modelled, proved.
3. `SettingsRuntime` with `SettingsContract` - modelled, proved.
4. `IdentitySessions` with `SessionContract` - modelled, proved.
5. `MediaStorage` with `ImageContainers` - modelled, proved.
6. `RoleAccess`, `CatalogProducts` (with `DecimalMoney`) and their composition `Administration` -
   modelled, proved.
7. `Admission`: the rate limiter and the throttle of sign-in - modelled, proved.
8. `Database`: pool, transaction boundary and migration runner - modelled, proved.

Left, in this order:

- The rest of `packages/foundation`: addition, comparison and rounding of decimals and the conversion of
  units, as functions against a reference definition.
- A composition of identity and outbox: a challenge and the message carrying its secret commit
  together, and a secret is never delivered for a challenge that was rolled back.

## 3. The modules

| Module | Role |
|---|---|
| `DeliveryContract` | what the outbox promises about one delivery, without leases, workers or clocks |
| `NotificationOutbox` | the table, the processors, the provider, the clock; refines `DeliveryContract` |
| `NotificationOutboxProofs` | theorems about it |
| `IdempotencyContract` | one atomic look at the key per claim |
| `IdempotencyKeys` | the statements of `claim` and `complete` with row locks and commits; refines `IdempotencyContract` |
| `IdempotencyKeysProofs` | theorems about it |
| `SessionContract` | sessions opened once, secrets exchanged atomically, revocation final |
| `IdentitySessions` | the calls of `IdentityService` over one account; refines `SessionContract` |
| `IdentitySessionsProofs` | theorems about it |
| `SettingsContract` | the values of a setting as a log that grows, and the version applied |
| `SettingsRuntime` | concurrent calls of the settings service on one setting; refines `SettingsContract` |
| `SettingsRuntimeProofs` | theorems about it |
| `DecimalMoney` | decimal texts: what `parseDecimal` and `money` accept and normalise |
| `CatalogProducts` | concurrent calls of `CatalogProductsService` over the repository port |
| `RoleAccess` | roles, their permissions, the roles of accounts, and the actors resolved from them |
| `Administration` | `RoleAccess` and `CatalogProducts` together: one actor, resolved once, for both |
| `AdministrationProofs` | theorems about roles, products and prices |
| `Database` | pool, transactions and migrations over connections that break |
| `DatabaseProofs` | theorems about it |
| `ImageContainers` | the scanners of PNG chunks and JPEG segments, with what the formats ask of a whole file |
| `MediaStorage` | uploads, downloads and deletions over two files per object; scans with `ImageContainers` |
| `MediaStorageProofs` | theorems about it and about the scanners |
| `Admission` | the rate limiter and the sign-in throttle of one process |
| `AdmissionProofs` | theorems about it |
| `MC...` | values of constants and symmetry sets for TLC |

Definitions marked `mutant` in a comment are not used by the specifications: each is a plausible bug
in the definition next to it, and shows that a property can fail.

### 3.1 NotificationOutbox

*State.* `row` is the outbox table; a row keeps the columns of `0003_f7_outbox.sql` the protocol reads
(`attempt_count`, `available_at`, `expires_at`, the lease token and its expiry, the error code).
`worker[w]` holds the locals of one `processOnce`: its lease token, the time it read before claiming, the last
time it read, the jobs left, the job at hand and the error code about to be stored.
`accepted` is what the external provider has accepted; `sends` counts calls of `provider.send`;
`faults` counts crashes and failed statements.

*Actions.* `Enqueue` is the committed insert (`ON CONFLICT DO NOTHING`). `Start`, `SelectBatch`,
`ClaimBatch` are the start of `processOnce` and the one statement of `claimBatch`, in two steps: its
`FOR UPDATE SKIP LOCKED` candidates stay locked from the first to the second. `BeginJob` decrypts and
checks the expiry; `Resolve` asks for the recipient; `Send` calls the provider, which accepts,
refuses, or accepts without answering; `MarkDelivered`, `MarkDead`, `MarkFailed` are the
fenced updates, each of which may take effect, fail, or take effect with its reply lost. An
exception in the `try` block goes to the catch block (`Catch`); an exception of the catch block's own
`markFailed` ends `processOnce` and leaves the rest of the batch leased. `Crash` is the death of a
process at any point.

*Abstractions.* A payload is only whether it decrypts. A token is "fresh" when nothing refers to it, as
a random UUID is. Time is a natural number; the comparison operators at the boundaries are the
code's. The jobs of a batch are taken in any order (the code's order is that of the returned rows,
which SQL does not fix).

### 3.2 IdempotencyKeys

*State.* The committed `row` of one (operation, key) pair, the `lock` on it, the locals of each
`client`, among them the `draft` its transaction would commit, and the history `began` of generations and
the clients that were told they started them.

*Actions.* `Call` reads the clock and begins; `Insert`, `Select`, `Reclaim`/`Keep` and `Commit` are the
statements of `claim`; `Finish` and `Complete` the work and `complete`; `Return` and `Crash` the end of
a call. `Insert` waits for another uncommitted insert of the key, as PostgreSQL's unique index does;
`Select` takes the row lock, `Commit` releases it and may fail, or take effect without being heard.

*Caller protocol.* `complete` takes its `now` from the caller. The integration tests pass the time of
the claim again, so `Finish` admits any time between the claim's and the clock's.

*Notes on the code.* The fall-through of `claim` after an UPDATE that changes nothing
(`idempotency.ts:70-74`) is never reached, because the row is locked by the SELECT before it:
`SnapshotHolds` states it and it is proved. There is no operation that releases a claim: work that
fails keeps its key until the expiry.

### 3.3 IdentitySessions

*State.* One account: its `account` and `credential` rows, its `session` and `challenge` rows, the locals
of each `request`, and four histories. `told` is the set of session secrets callers were given: only these
can be presented. `ended` is the set of sessions that existed when a call that ends all sessions of the account
(a new password, a reset, a deactivation, a sign-out of all) began its transaction, added when that commits;
`seen` is the version of the account each sign-in had read, and `deactivated` the version in which the account was
last made inactive.

*Actions.* A call begins (`Provision`, `SignIn`, `WithSecret` for authenticate/rotate/sign-out,
`RequestChallenge`, `CompleteReset`, `CompleteVerification`, `SetAccountStatus`, `SignOutAll`,
`ChangePassword`), reads one row per step (`ReadSession`, `ReadAccount`, `ReadCredential`, `ReadChallenge`),
and runs its transaction: `Execute` stands for the statements before the sessions are revoked,
`Revoke` for the UPDATE of `revokeAllSessionsForAccount`, `Commit` for COMMIT with or without a reply.
`Abort` is a crash or an error anywhere before.

*Transactions in two or three steps.* Each transaction writes rows found by primary key, then perhaps
revokes the sessions of the account. A row it wrote stays locked until COMMIT and other calls
still read the old version, so the statements before the revocation have the effect of one step taken
when the last of their locks is obtained; the locks are the predicates `AccountLocked`,
`CredentialLocked`, `ChallengeLocked` and `SessionLocked`. The revocation is different: under READ
COMMITTED its UPDATE sees the rows committed when it starts (`Snapshot`), waits for those others hold,
re-checks them, and never sees a session committed meanwhile. That is why it has its own step.

*Which sessions survive.* `signIn` checks the password and the status, hashes, and creates its session later without
looking again, so a session can outlive the change that should have ended it. The two properties say exactly
which: `RevocationIsComplete`, that no session in existence when the transaction began is live after it
commits, or ever again; and `InactiveHasNoSessions`, that a session live in an inactive account is one of a sign-in that
had read the account before it was deactivated and that ended after that transaction began. An overlap with anything
else (an e-mail verification, an earlier change) exempts nothing. Both kinds of survivor do occur in the model, so
neither property can be made stronger for this code, and no document of the repository promises more. The run
leaves rotations out to stay small; that they revive nothing beside a revocation is part of the theorem.

*Abstractions.* A secret is the version of the session row it was issued for and its issuer. Passwords
are compared as values. The throttle, roles, audit and events take part only as failures (`Abort`). The
`Ops` constant selects the operations the callers use, to keep each run small; an operation not
in `Ops` is just never called.

*Notes on the code.* `signOut` ignores a version conflict and reports success, while the OpenAPI document says
"Current session revoked" (`contracts/openapi/taymex-v1/source.openapi.yaml:52`). The secret presented is
dead in every case (`SignedOutSecretIsDead`), though the session may live on under a
secret rotated concurrently. `revokeAllSessionsForAccount` is given the time read before the password
was hashed; a session created in between makes the UPDATE fail its CHECK constraint, which rolls the
password change back. `changeAccountStatus` to the current status, and a second e-mail verification,
fail with a RangeError. Several reset challenges may be outstanding, and a reset consumes only its own.

### 3.4 SettingsRuntime

*State.* One setting at one scope: `current` is its row of `runtime_setting_values` (version 0 when
there is none), `history` its rows of `runtime_setting_history`, `applied` the version in
`runtime_setting_application`, `audit` what was recorded about it, `request[r]` the locals of a call,
and `everApplied` a history of applied versions.

*Actions.* `Write`, `Rollback`, `MarkApplied` and `Diagnose` begin a call. `ReadTarget` is
`findHistoryVersion`, `ReadBefore` the `findCurrent` whose value goes into the audit record.
`CompareAndWrite` is the INSERT or UPDATE of `compareAndWrite`: it takes the row, or loses and reports
the version it reads by `ReadConflict`. `SelectForUpdate` is the SELECT of `markApplied`. The holder of the
row then commits (`CommitWrite`, `CommitApplied`): the history row, the applied version of a hot setting and the
audit record take effect with the row, because all are in one transaction and nobody can read them
before. The reply to COMMIT may be lost. `ReadSaved` and `ReadApplied` are the two reads of `diagnostic`.
`Abort` is a crash, a failed statement or a failed audit record.

*Waiting.* An UPDATE waits for the holder of a row only if the version it sees is the one it expects;
otherwise it has lost at once. The first INSERT of a row makes other INSERTs wait, and is invisible
to UPDATE and SELECT FOR UPDATE. Both are the predicate `Waits`.

*Abstractions.* Permission, mutability and validation are checked before anything is read and refuse the
call; such a call is left out. `PENDING_RELOAD`, `PENDING_RESTART` and `PENDING_DEPLOY` are one status.
`resolveEffective` and `history` are one read each and have no state. No operation touches two settings.

*Callers.* `Foresight` says whether a caller may name a version that does not exist yet. The expected
version comes from the request, so it may be any number, and all properties but one hold even
then. `AuditTellsHistory` holds for callers that name versions they were told of: one that guesses the next
version, and whose `findCurrent` runs just before another call commits that version, is accepted with
the older value as its audited "before".

### 3.5 RoleAccess, CatalogProducts, Administration

*State.* `role` and `roleSet` are the rows of roles (with their permissions) and of the roles of accounts, each
with its version, 0 for a row that is not there; `audit` counts the audit records that name a role or an
account; `request[r]` holds the locals of an HTTP request, first of all its actor: account,
permissions (`access`) and assurance level. `held` is a history: the permissions the committed rows gave the
account when its request authenticated (`Granted`). `product` and `call` are the rows of the catalogue
and the locals of its calls.

*Actions.* `Authenticate` is the session check followed by `resolveAccountRoles`, one statement and so one
snapshot. `CreateRole`, `ReplacePermissions`, `AssignRoles` begin an operation (`Privileged` refuses),
`ReadRole` and `ReadRoles` are the reads outside the transaction; `InsertRole`, `UpdateRole` and
`ReplaceAccountRoles` take the row lock and compare the version; `Commit` makes the rows that depend on it
and the audit record visible with it. `Abort` is any failure or crash. `Delegate` hands the actor to the
catalogue, `CatalogStep` is a step of its call: `Load`, then `Create` or `Replace`, or an error
(`NotFound`, `Invalid`, `Conflict`, `Fail`).

*Abstractions.* Permissions are those that matter to the two components and one that is unknown. A session
may be AAL2 or not at any time, since no step-up exists in the code yet. The first role and its
holder are inserted by hand: every operation on roles needs one. `replacePermissions` has no HTTP route; it is
an operation of the service all the same. The catalogue is not wired (`catalog.module.ts` registers nothing);
its subject has the type of an `ActorContext`, which is the composition modelled. Category and names
of a product are left out. The arguments of a call are chosen where they first matter, so that they need no
state. Prices are texts made of digits, since their normalisation is what `PriceIsMoney` is about.

*What a revocation reaches.* The actor is resolved once (`authentication.ts:355`) and no operation looks at the rows
again, so `EveryChangeWasAuthorized` can promise no more than this: each row that changes is changed by the
COMMIT of the request that names it, and its account had the permission when it authenticated. A role
taken away stops every request that authenticates afterwards; one that authenticated before still commits, and the run
reaches such states.

*Note on the code.* The last replacement in `parseDecimal`, for a text "-0", has nothing to do: a sign is
only written for a coefficient that is not zero.

### 3.6 Database

*State.* A connection has two ends: what the pool knows (`client`, `up`) and what the server holds
(`session`, the transaction, its writes, the advisory lock). `call[c]` is a call of `transaction()` or
`migrate()`; `rows`, `applied` and `schema` are what was committed: the two rows of a transaction's
work, the records of migrations, and how often the statements of each migration took effect.

*Actions.* One per query, with its failure next to it (`Begin`/`BeginFails`, `Commit`/`CommitAnswerLost`,
`Lock`/`LockFails`, ...), the release of the connection (`Released`: destroyed, or back to the pool), and what
goes wrong by itself: `Break` of a link, `SessionEnds` when the server notices, `Die` of a process. The
work of `transaction()` writes two rows, the second inside a nested call, which joins the
transaction (`Executor`). `migrate()` runs for a release, one of several versions of the migrations
directory: the first, its successor, and one whose first migration was edited after release.

*Fairness* (for `LockIsFreed`). A call in progress goes on: `statement_timeout` and
`connectionTimeoutMillis` are set on the pool, so every query is answered or fails. The server ends a
session whose peer is gone, as TCP keepalives make it.

### 3.7 ImageContainers, MediaStorage

*State.* Each object has two files, absent, torn or whole; `writer` is the call that created a file and
has not finished it. `call[c]` is an upload, download or delete with the bytes it holds in memory.
`past` remembers of each object whether its id was drawn, its upload returned, its deletion was recorded,
and the two exceptions: two deletions `overlapped`, or a crash or failing clean-up left it `damaged`.

*Actions.* `BeginUpload`, `Sanitize`, then `put()`: `Create`, `Write` per file, `Discard` when one fails.
`get()` reads both files in any order (`ReadFile`), `remove()` removes both (`RemoveFile`). `Audit`
records and returns; when it fails, `Undo` removes the upload or puts the deleted object back from memory, through
the same `put()`. `Crash` stops the process and leaves the files.

*ImageContainers* keeps a file as the sequence of its chunk or segment types. The scanners are folds of the
code's flags; `WellFormed` says what a PNG or baseline JPEG is, of the whole sequence.

*Notes on the code.* Two deletions of one object that overlap may bring it back: both read it, one
is recorded and the other's audit fails, so that it restores the object, although its deletion was recorded and
answered. The second may also have read the half-restored file of the first and restore torn bytes, which
`download` then refuses by the digest (`NothingTornIsServed` holds even then; the other two properties
except such objects). When one `rm` of `remove()` fails, the other may still be running; the model ends
both there and marks the object `damaged`.

### 3.8 Admission

*State.* `buckets` and `entries` are the maps of the limiter and the throttle. A map is iterated in the order of
insertion, on which eviction depends: each entry has the set of keys `older` than its own. `let` and `guesses` are
histories: for each key the requests let in (`Admitted`: when, and as which of which bucket), for each address the
wrong guesses that were answered (`Guess`: when the sign-in began, and a number that tells those of one
instant apart). The failures of an entry, a list of times in the code, are such guesses too.

*Actions.* `Request` is the guard: the limiter counts first, then the other conditions decide. `Begin` is
`isBlocked` of `signIn`; the verification is slow, and other calls run before its result: `Fail`
(`recordFailure`, with the time at which the sign-in began), `Succeed` (`recordSuccess`) or `Abandon`.

*The bound of `GuessesAreBounded`* is `MaxFailures + (n - 1) * (n + 2) / 2` for n concurrent sign-ins, not
`MaxFailures`. All n may pass before the first of them fails, which adds n - 1. And one that began before the window
and fails late writes the lock with its own, older time, so that the lock ends early and lets the other calls pass
again, but for those that are still to end it in the same way: n - 1 calls can do that, the first
letting n - 1 more guesses be answered, the last one more. TLC
reaches the bound with two calls and with three: one less is violated. (`MaxFailures + 2 * (n - 1)`, which one
would guess from two calls, is violated by three.) It needs a lock no shorter than the window, as in
`DEFAULT_AUTHENTICATION_THROTTLE_POLICY`, where both are 15 minutes.

`RateIsBounded` has `2 * Limit - 1`, not `Limit`, since windows are fixed: the end of
one and the start of the next may be close. The capacity of a table is a limit of a different kind: an evicted live entry starts
from nothing, so both bounds are "as long as no live entry was given up", and `ExpiredGoFirst` says when
that may be.

## 4. What the runs check

| Run | Question | Bounds |
|---|---|---|
| `outbox_race` | at-least-once delivery, fenced marks, how far sends of one message overlap, the contract (deduplication included) | 2 messages and deliveries, 2 processors with batches of 2, 2 tokens, clock 0..2, lease 1, 2 attempts, 1 fault |
| `outbox_recovery` | with prompt processors: sends beyond `MaxAttempts` only for faults; liveness: every message is settled | 1 message, 2 processors, lease 2, 2 attempts, 2 faults, lifetime 3 |
| `outbox_poison` | expected violation, section 6 | 1 message, 1 processor, 2 faults |
| `idempotency_claims` | one owner per generation, fenced completion, authentic replay, the contract | 2 clients, 2 hashes, clock 0..3, 2 faults |
| `idempotency_recovery` | liveness: a key does not stay in progress | 2 clients that may die |
| `session_lifecycle` | rotations exclude each other, sign-out kills its secret, the contract (revocation is final) | 2 calls, 1 session, versions to 5, clock 0..2 |
| `session_accounts` | status, verification, password and reset do not undo each other and end the sessions | 2 calls of 10 operations, 1 session, 1 challenge, 2 passwords, 2 statuses, versions to 3, clock 0..1 |
| `settings_history` | row, history, audit trail and applied version agree; the contract | 2 calls, 2 values, versions to 3 |
| `administration` | roles and products have one line of versions, changes were authorized, prices are money | 2 requests, 2 accounts, 2 roles and names, 2 changes of roles; 2 products whose codes collide, versions to 3, 4 amounts, clock 0..1 |
| `database` | clean pool, atomic transactions, migrations applied once with their record, the lock is freed (liveness) | 2 calls, 2 connections, 2 migrations, 3 releases, 2 faults |
| `media_storage` | what passes the scanners, torn files, failed audits and crashes | 3 calls, 1 object, 4 faults; PNG to 5 chunks, JPEG to 4 tokens |
| `admission` | rate, wrong guesses, eviction | 2 calls, 3 peers, 2 addresses, 2 requests of a window, tables of 2 and 1, windows of 2, clock 0..2 |

*Why these bounds.* A lease lasts one or two ticks, so the clocks allow a lease to be lost, the message
to be reclaimed, retried and expire. Two attempts distinguish the first failure, which retries, from the last,
which kills; in `outbox_recovery` the secret outlives both, so that a third send is possible in time, and three
tokens let a row be leased by a third claim while two older holders still run.
Two faults let a statement fail and the handler of that failure fail too. Two clients on one
idempotency key and a clock of three claims let one reclaim while the other still works, and be reclaimed
in turn; any number of clients is covered by the proofs, as are hot settings and callers that
guess versions (`Hot`, `Foresight`), which no run has.
Three versions of a setting let a value be written, replaced and restored under a call that read
the first; two values tell a restored value from the one it replaced. Session versions to 5 let a session be
created, rotated twice and revoked around a stale reader.
Two changes of roles suffice for one request to lose its permission, or its version, to another; a product at
version 3 was updated after an update it may have missed, and the four amounts have one that is normalised and
one for each reason to refuse. In `database` the second call meets each state the first can leave a connection or the
lock in, and two faults let the clean-up of a failure fail; the second
connection is the one a migration blocks on or a nested call must not take. In `media_storage` four faults let
the audit of a delete, its restoration, and a second delete fail in one behaviour; five chunks are the shortest PNG with a chunk between image data. In `admission`
the tables are smaller than the keys, so eviction happens, and the clock reaches the end of a window and
of a lock: two requests of a window at its last instants and two of the next give the three within one
window's length that `RateIsBounded` allows (two are violated), and a late failure ends a lock in time for the
last guess that `GuessesAreBounded` allows. The symmetric sets are interchangeable identifiers (workers, clients, requests, rows, tokens); no run
with a liveness property uses symmetry.

*Deadlock* is checked in every run but `media_storage`, where every id may have been drawn and nothing is left
to do: `Return`, `Start`, `Crash`/`Abort` and `Tick` are real steps, and no
run ends in a state where the system as a whole is stuck. This says nothing about PostgreSQL's own lock
waits: two transactions that revoke sessions in different orders are resolved by its deadlock detector,
which the model sees as an `Abort`.

*Fairness.* `outbox_recovery` assumes that time passes (`SF(Tick)`) and that each processor's next step is
taken (`WF(Step(w))`): `processOnce` is called again and again by whoever schedules it, a promise of
Node is settled, and a database call returns or fails. `idempotency_recovery` assumes `SF(Tick)`, that every statement sent is executed
however contended the row is (`SF(Statement(c))`: PostgreSQL queues lock waiters), and that callers act on their answers
(`WF(Caller(c))`). Strong fairness of `Tick` is needed because in these runs the clock rests while a prompt worker or client is about to
exceed its lease; it is enabled again and again, not continuously. `PromptWorkers`
and `PromptClients` state the assumption under which those properties hold, namely that live holders
act before their lease ends. They do not hold back crashed ones: a lease left behind does expire. In both runs the clock stops
only when nothing waits for it, and its cap is never reached, so no liveness result comes from the bound. The
fairness of `database` is in section 3.6.

## 5. What is proved

The proofs hold for every value of the constants that satisfies the named assumptions (`OutboxAssumption`,
`IdempotencyAssumption`, `SettingsAssumption`, `IdentityAssumption`, `RoleAccessAssumption` with
`AdministrationAssumption`, `DatabaseAssumption`, `MediaAssumption`, `AdmissionAssumption`): any number of processors,
messages, clients, sessions, requests, connections and objects, images of any length, any lease and retry durations,
limits, windows and capacities. Only `AdmissionAssumption` relates two of them (`LockMs >= FailureWindowMs`, see 3.8) and
asks for a finite set (the calls in progress, whose number is in a bound). The constants that bound a counter for TLC
(`MaxFaults`, `MaxTime`, `MaxVersion`, ...) are arbitrary in the proofs. Some theorems have a hypothesis of
their own: `~Foresight` for `AuditTellsHistory`, and `PromptWorkers` for the two about prompt processors.

Each proof module has one `IndInv`, and the same argument: `Init => IndInv`, one lemma per action or kind of
action for `IndInv /\ [Next]_vars => IndInv'`, and the properties from `IndInv`; an action property and a refinement
look at the steps once more with `IndInv` at hand. Every inductive invariant was model-checked on instances like those
of the runs before it was proved.

*Outbox* (`NotificationOutboxProofs`). `IndInv` adds to the safety properties what they rest on:
`RowsOK` (a row is blank until enqueued, and leased exactly while PROCESSING); `LocalsOK` (what a processor's
locals still say of the table, for instance that `confirming` means the provider has accepted, and
that the candidates locked by a claim are still claimable); `Apart` (tokens are not shared,
and two claims lock disjoint candidates). Without `LocalsOK` at `confirming`, at-least-once is
not inductive; without `Apart`, a mark could settle another worker's lease. From `IndInv` follow
`TypeOK`, `RetryBudget`, `DeliveredWasAccepted`, `UniqueDelivery`, `LeaseIsOwned`; the action property
`FencedRelease`; and that each step is a step of `DeliveryContract` or a stutter.

*Outbox, leases.* A second invariant, `LeaseInv`, needs no assumption on how fast processors are. A message a
call has in hand (taken with its batch, not yet settled) is leased to it, or was `Overtaken`: claimed by
another call after the lease had run out. Whatever becomes of an overtaken message, its row keeps a time that is no
earlier than the end of that first lease: the end of a later lease, or the time of the next attempt. A claim that
read its clock before therefore does not get it, however late its statement arrives. Two calls with one message in
hand have claimed it a lease apart, which is `SendsALeaseApart`: the code has one lease for a whole batch and no
timeout on a send, so a message may be at the provider twice, but never within one lease.

*Outbox, prompt processors.* Under `PromptWorkers` `PromptInv` adds to it that a running call has not come to the end
of its leases (`InTime`), so that nothing it has in hand was overtaken, and `SendsCounted`: a message was sent at most
once for each attempt counted, once for each fault, and once for the mark that is on its way or that delivered it.
That gives `ResendsAreFaults`, because `attemptCount` never exceeds `MaxAttempts`. `SendsCounted` is not
inductive alone: a send is owed a mark only as long as the lease it was made under is still there (`Owed`).

*Idempotency* (`IdempotencyKeysProofs`). `IndInv` adds `TransactionOK` (who holds the row lock, and that a
draft is the next generation of the row it saw) and `OwnerOK` (the claim of a client told "started" is
the row's generation with the row's expiry, or has expired). The second gives mutual exclusion: two live owners
both hold the row's generation, and a generation has one owner. From it follow the six safety
properties, `NoEarlyReclaim` and the implementation of `IdempotencyContract`.

*Settings* (`SettingsRuntimeProofs`). `IndInv` adds to the properties that at most one call holds the row
(`OneHolder`) and that its expected version is the one in force (`HolderOK`); what a call that saves
a value still knows (`SavingOK`: the target of a rollback is in the history, and the value read as "before" is the
current one while the expected version is); and that applied versions are existing versions
(`AppliedOK`). Without `SavingOK` the audit property is not inductive: it is the compare-and-write that makes
an earlier read true after the fact. All six safety properties, `NoLostUpdate`, `AppliedInOrder` and the
implementation of `SettingsContract` follow, for any number of calls and values; `AuditTellsHistory`
under `~Foresight`.

*Identity* (`IdentitySessionsProofs`). The rows: `AccountOK` (account and credential are created together),
`SessionOK` (a live session has the secret issued for its version), `ToldOK` (a secret that callers know is the current one or
was issued for an older version), `ChallengeOK` (a consumed verification has verified). The calls, in `RequestOK`: what a call
has read is still true as long as the version is the one it read (`ReadsOK`, `PresentsOK`, `CompletesOK`), and from `Execute`
to `Commit` true outright (`TransactionOK`, `WritesOK`). What makes that last part inductive is the row locks, stated as
`~Conflict`: no two transactions are going to write the same account, credential, challenge or session. So `Commit` of one
call cannot falsify what another has compared. `RevocationIsComplete` follows from the sessions a revocation found: those that
were there when its transaction began and are still live are among its `writes` until it commits (`TransactionOK`), and
those of `ended` are revoked, which nothing undoes (`PastOK`). `InactiveHasNoSessions` adds that a call which read the account
ACTIVE, when it no longer is, read it in an older version than `deactivated` (`ReadsOK`). A step is handled in
two halves: what happens to the call that takes it, and why it disturbs no other. The theorem about `SessionContract` maps
each `Commit` to opening, rotating or revoking sessions and every other step to a stutter.

*Administration* (`AdministrationProofs`). `AccessInv` says what a request still knows of the rows it read
(`RequestOK`), that a request that has a row excludes others from it (`LocksExclude`), and the two facts the reads outside
the transaction are about and the database enforces, `RoleNamesDiffer` and `AssignedRolesExist`. `CatalogInv` says the same of
the catalogue: a call replaces the row it was computed from, or its version has moved. `Linked` joins them: a call
is in progress exactly while its request has delegated, and the request held `ManageProducts`; without it nothing
relates a product to an actor. The permission itself is safe because the actor's permissions are among those `held` records (`AccessIsGranted`) and
a commit of one request leaves the actors and the history of all others alone (`CommitKeeps`). `PriceIsMoney` needs that normalising twice is normalising once, for texts of any length.
That is shown without induction: dropping the leading zeros is a matter of how many there are, and after it there is none.

*Database* (`DatabaseProofs`). `IndInv` relates the two ends of a connection: `Owned` (a busy connection belongs to one call
and a call in progress to a busy one), `OneLock` (the advisory lock is on one connection), and for each phase of a call what
the server holds for it (`TransactionOK`, `MigrationOK`), as long as the link is up; a call whose link broke
knows nothing, which is why these conjuncts are conditional and why such a connection must be destroyed. `MigrationOK` has the
heart of `SchemaMatchesHistory`: while the session has the lock, the history `migrate()` has read is the one that is
committed, and its transaction contains exactly the current migration and its record.

*Media* (`MediaStorageProofs`). The invariant is per object. `Stage` says what the two files are at each phase of the one call that
changes the object; `Settled` what they are when no call does; both only of objects whose deletions did not overlap, and
`overlapped` is shown to be the only way for two calls to change one object. `FilesFollowAudit` is `Settled` at rest;
`MetadataMarksWholeBytes` follows from both, since the metadata is created last and a restoration starts from
nothing. `NothingTornIsServed` rests on the digest alone and holds for overlapping deletions too.

*The scanners* (`ScannersAreExact`, in the same module). A scanner is a fold over a file, and the prover cannot be given an
induction scheme. Its place is taken by least elements: that a set of natural numbers has a least one (`Least`) follows
from the library's theorem that `<` is well-founded, and gives an induction up to n over a *set* of positions
(`UpTo`). With it the fold is shown to exist (`FoldExists`) and to run through one state per prefix of the file
(`StatesAre`); `PngSeen` and `JpegSeen` say what the flags after a prefix tell of it. One direction then reads the form
of the file off the last state, where the end of the PNG image data is again a least position; the other follows
the witnesses of `WellFormed` along the file.

*Admission* (`AdmissionProofs`). The limiter (`LimiterInv`): every request that was let in has its own number in a
bucket, the windows of buckets do not overlap, and each is counted by the bucket its key has or belongs to one that is past
(`Counted`). The requests of one window's length then fall into at most two buckets, and the first request of the earlier one, a
whole window before the later one opened, is not among them if both have some: they inject into
`2 * Limit - 1` numbers. The throttle (`ThrottleInv`) is a
potential: for every window, the guesses answered and those that the calls in progress can still add are at most the bound
(`WindowOK`). How many those are depends on the calls that began within the window, on the calls that began before
it and can still end the lock, and on whether it is locked, open or over (`Bound`); each step of any
call trades one for the other. What is answered is what is in the entry, except what has left the window (`GuessesOK`).
`OrderWithout` and `OrderPut` keep `older` a linear order, without which a full table might find no oldest entry to give up.

Some of these are theorems only and not properties of a run, since a stronger or a more telling one
took their place there: the inductive invariants, the type invariants (`TypeOK`, `DatabaseTypeOK`, `MediaTypeOK`, `AdmissionTypeOK`: the
latter includes that neither table outgrows its capacity),
`RetryBudget`, `UniqueDelivery`, `LeaseIsOwned`, `OneLiveOwner`, `SnapshotHolds`, `NoEarlyReclaim`, `HistoryIsComplete`,
`AppliedInOrder`, `RoleNamesDiffer`, `AssignedRolesExist`.

Only model-checked are `EventuallySettled`, `InProgressIsResolved` and `LockIsFreed`: liveness under fairness, and
ENABLED, are out of the prover's reach. Every other property of a passing run is a theorem. The one property of
section 6 is false.

No module uses RECURSIVE.

## 6. Finding

`outbox_poison`: the F7 report promises "bounded retry attempts" and a "terminal `DEAD` state for poison"
(`docs/FOUNDATION_F7_FILES_SIDE_EFFECTS_REPORT.md:94,97`). An attempt is counted by `markFailed` and
`markDead` only; taking over an expired lease (`postgres-store.ts:34-35`) counts none. A message whose
processor dies after each send, or always outlives its lease, is sent more than `maxAttempts` times,
until its secret expires. `outbox_recovery` shows that with prompt
processors every send beyond the bound is owed to a crash or a failed statement (`ResendsAreFaults`).

## 7. Not modelled

Cryptography (password hashing, payload sealing), the decoding of images and the validation of names and
sizes, logging, the redaction and query of audit records, the web application, and the
generators have no protocol state. Of the API, the parsing of requests and the wiring are left out; its
routes are the callers of the actions. Of `packages/foundation` only parsing is modelled (section 2). A claim of an
idempotency key inside an enclosing transaction is not modelled: the nested call joins that transaction
and its locks last until the outer COMMIT. Several accounts are not modelled in `IdentitySessions`: none of its
operations reads or writes rows of two accounts. Two hazards have no property: the timestamp that
`revokeAllSessionsForAccount` is given and the lock order of two revocations both end in a failed call,
which the model has (`Revoke`, `Abort`) and which harms no state.
