-------------------------- MODULE IdentitySessions --------------------------
(***************************************************************************)
(* One account of the identity service: its row, its password credential,  *)
(* its sessions and its challenges, and the calls of IdentityService       *)
(* (packages/identity, authentication.ts) that run concurrently over them  *)
(* through PostgresIdentityRepository.                                     *)
(*                                                                         *)
(* A call reads the clock, reads rows one statement at a time, computes,   *)
(* and ends in one READ COMMITTED transaction.  The transaction is two or  *)
(* three steps: its statements up to the first that must lock the sessions *)
(* of the account, the locking of those sessions, and COMMIT.  What it     *)
(* wrote is invisible until it commits and its rows are locked meanwhile.  *)
(***************************************************************************)
EXTENDS Integers

CONSTANTS Requests,        \* calls in progress at the same time
          Sessions,        \* session identifiers (uuid)
          Challenges,      \* challenge identifiers (uuid)
          Passwords, Statuses,
          NoRequest, NoSession, NoChallenge, NoPassword,
          Ops,             \* the operations the callers use
          SessionTtl, ChallengeTtl,
          RequireVerified, \* policy.requireVerifiedEmailForSignIn
          MaxVersion,      \* bound on the versions of the rows
          MaxTime          \* bound on the clock

AllOps == {"provision", "sign-in", "authenticate", "rotate", "sign-out", "sign-out-all",
           "change-password", "request-reset", "complete-reset",
           "request-verification", "complete-verification", "set-status"}

ASSUME IdentityAssumption ==
  /\ Ops \subseteq AllOps
  /\ "ACTIVE" \in Statuses /\ Statuses \subseteq {"ACTIVE", "SUSPENDED", "DISABLED"}
  /\ SessionTtl \in Nat \ {0} /\ ChallengeTtl \in Nat \ {0}
  /\ RequireVerified \in BOOLEAN
  /\ MaxVersion \in Nat \ {0} /\ MaxTime \in Nat
  /\ NoRequest \notin Requests /\ NoSession \notin Sessions
  /\ NoChallenge \notin Challenges /\ NoPassword \notin Passwords

VARIABLES account, credential, session, challenge,  \* the committed rows
          request,     \* the locals of each call
          now,         \* the clock
          told,        \* history: the session secrets callers were given
          ended,       \* history: sessions that existed when a call that ended them all began
          seen,        \* history: the version of the account each sign-in had read
          deactivated  \* history: the version in which the account was last made inactive

rows == <<account, credential, session, challenge>>
past == <<ended, seen, deactivated>>
vars == <<account, credential, session, challenge, request, now, told,
          ended, seen, deactivated>>

\* A secret token is identified by the row version it was issued for and its issuer.
Secret == [version : Nat, by : Requests \union {NoRequest}]
Account == [status : Statuses \union {"NONE"}, verified : {"yes", "no"}, version : Nat]
Credential == [password : Passwords \union {NoPassword}, version : Nat]
Session == [state : {"NONE", "LIVE", "REVOKED"}, version : Nat, secret : Secret,
            createdAt : Nat, expiresAt : Nat]
\* The version of a challenge is 1 while it is active and 2 once consumed.
Challenge == [kind : {"NONE", "PASSWORD_RESET", "EMAIL_VERIFICATION"},
              state : {"NONE", "ACTIVE", "CONSUMED"}, expiresAt : Nat]

NoSecret == [version |-> 0, by |-> NoRequest]
NoAccount == [status |-> "NONE", verified |-> "no", version |-> 0]
NoCredential == [password |-> NoPassword, version |-> 0]
NoSessionRow == [state |-> "NONE", version |-> 0, secret |-> NoSecret,
                 createdAt |-> 0, expiresAt |-> 0]
NoChallengeRow == [kind |-> "NONE", state |-> "NONE", expiresAt |-> 0]

Answers == {"authenticated", "done", "refused", "failed"}
Phases == {"idle", "reading-session", "reading-account", "reading-credential",
           "reading-challenge", "executing", "revoking", "committing"} \union Answers

Request == [op : AllOps \union {"none"}, phase : Phases, now : Nat,
            session : Sessions \union {NoSession}, secret : Secret,
            challenge : Challenges \union {NoChallenge},
            password : Passwords \union {NoPassword},      \* the one to verify
            newPassword : Passwords \union {NoPassword},
            status : Statuses \union {"NONE"},
            account : Account,         \* the account it read
            credentialVersion : Nat,   \* of the credential it read
            version : Nat,             \* of the session it read, or expectedVersion
            writes : SUBSET Sessions,  \* the sessions its transaction writes
            known : SUBSET Sessions]   \* history: those it is to end, see Transacts

Idle == [op |-> "none", phase |-> "idle", now |-> 0, session |-> NoSession,
         secret |-> NoSecret, challenge |-> NoChallenge, password |-> NoPassword,
         newPassword |-> NoPassword, status |-> "NONE", account |-> NoAccount,
         credentialVersion |-> 0, version |-> 0, writes |-> {}, known |-> {}]

Init ==
  /\ account = NoAccount
  /\ credential = NoCredential
  /\ session = [s \in Sessions |-> NoSessionRow]
  /\ challenge = [c \in Challenges |-> NoChallengeRow]
  /\ request = [r \in Requests |-> Idle]
  /\ now = 0
  /\ told = {}
  /\ ended = {}
  /\ seen = [s \in Sessions |-> 0]
  /\ deactivated = 0

-----------------------------------------------------------------------------
(* The calls: each reads the clock and goes to its first statement.        *)

Goto(r, q) ==
  /\ request' = [request EXCEPT ![r] = q]
  /\ UNCHANGED <<rows, now, told, past>>

Call(op, phase) == [Idle EXCEPT !.op = op, !.phase = phase, !.now = now]

Begin(r, q) == request[r].phase = "idle" /\ q.op \in Ops /\ Goto(r, q)

\* The call is over; the caller remembers what it asked and what it was answered.
Answer(r, a) ==
  Goto(r, [Idle EXCEPT !.op = request[r].op, !.phase = a,
                       !.session = request[r].session, !.secret = request[r].secret])

\* The call goes on, or is over.
Proceed(r, q) == IF q.phase \in Answers THEN Answer(r, q.phase) ELSE Goto(r, q)

Provision(r, p) ==
  Begin(r, [Call("provision", "executing") EXCEPT !.newPassword = p])

SignIn(r, p) == Begin(r, [Call("sign-in", "reading-account") EXCEPT !.password = p])

\* authenticateSession, rotateCurrentSession and signOut present a session secret.
WithSecret(r, op, t) ==
  Begin(r, [Call(op, "reading-session") EXCEPT !.session = t.session, !.secret = t.secret])

RequestChallenge(r, op) == Begin(r, Call(op, "reading-account"))

\* The secret of a challenge reaches its owner by mail, once the challenge is committed.
CompleteReset(r, c, p) ==
  /\ challenge[c].state # "NONE"
  /\ Begin(r, [Call("complete-reset", "reading-challenge")
                 EXCEPT !.challenge = c, !.newPassword = p])

CompleteVerification(r, c) ==
  /\ challenge[c].state # "NONE"
  /\ Begin(r, [Call("complete-verification", "reading-challenge") EXCEPT !.challenge = c])

SetAccountStatus(r, expected, status) ==
  Begin(r, [Call("set-status", "reading-account")
              EXCEPT !.version = expected, !.status = status])

\* signOutAll and changePassword act for the actor an earlier authenticateSession of
\* the same HTTP request returned.
Continue(r, q) == request[r].phase = "authenticated" /\ q.op \in Ops /\ Goto(r, q)

SignOutAll(r) == Continue(r, Call("sign-out-all", "executing"))

ChangePassword(r, p, q) ==
  Continue(r, [Call("change-password", "reading-credential")
                 EXCEPT !.password = p, !.newPassword = q])

-----------------------------------------------------------------------------
(* The reads.                                                              *)

CanAuthenticate(a) == a.status = "ACTIVE" /\ (RequireVerified => a.verified = "yes")

\* findSessionByTokenHash.
ReadSession(r) ==
  LET q == request[r]
      found == session[q.session]
      known == found.state # "NONE" /\ found.secret = q.secret
      active == known /\ found.state = "LIVE" /\ found.expiresAt > q.now
  IN /\ q.phase = "reading-session"
     /\ \/ /\ q.op = "sign-out"
           /\ IF known /\ found.state = "LIVE"
              THEN Goto(r, [q EXCEPT !.phase = "executing", !.version = found.version])
              ELSE Answer(r, "done")
        \/ /\ q.op \in {"authenticate", "rotate"}
           /\ IF active
              THEN Goto(r, [q EXCEPT !.phase = "reading-account", !.version = found.version])
              ELSE Answer(r, "refused")

\* requestPasswordReset and requestEmailVerification.
AfterRequest(q) ==
  IF q.op = "request-reset" THEN IF account.status = "ACTIVE" THEN "executing" ELSE "done"
  ELSE IF account.status = "NONE" THEN "refused"
  ELSE IF account.verified = "yes" THEN "done" ELSE "executing"

\* findAccountById or findAccountByNormalizedEmail, and what each operation makes of it.
AfterAccount(q) ==
  CASE q.op = "sign-in" ->
         IF account.status = "NONE" THEN "refused" ELSE "reading-credential"
    [] q.op = "authenticate" -> IF CanAuthenticate(account) THEN "authenticated" ELSE "refused"
    [] q.op = "rotate" -> IF CanAuthenticate(account) THEN "executing" ELSE "refused"
    [] q.op \in {"request-reset", "request-verification"} -> AfterRequest(q)
    [] q.op = "complete-verification" -> "executing"
    [] q.op = "set-status" -> IF account.version = q.version THEN "executing" ELSE "refused"

ReadAccount(r) ==
  LET q == request[r] IN
  /\ q.phase = "reading-account"
  /\ Proceed(r, [q EXCEPT !.phase = AfterAccount(q), !.account = account])

\* The verification of the password (scrypt, hence slow); a reset needs only a credential.
CredentialAccepted(q) ==
  CASE q.op = "sign-in" -> q.password = credential.password /\ CanAuthenticate(q.account)
    [] q.op = "change-password" -> q.password = credential.password
    [] q.op = "complete-reset" -> credential.version > 0

\* findPasswordCredential.
ReadCredential(r) ==
  LET q == request[r] IN
  /\ q.phase = "reading-credential"
  /\ Proceed(r, [q EXCEPT !.phase = IF CredentialAccepted(q) THEN "executing" ELSE "refused",
                          !.credentialVersion = credential.version])

\* requireActiveChallenge.
ReadChallenge(r) ==
  LET q == request[r]
      c == challenge[q.challenge]
      reset == q.op = "complete-reset"
      active == /\ c.kind = (IF reset THEN "PASSWORD_RESET" ELSE "EMAIL_VERIFICATION")
                /\ c.state = "ACTIVE" /\ c.expiresAt > q.now
  IN /\ q.phase = "reading-challenge"
     /\ Proceed(r, [q EXCEPT !.phase = IF ~active THEN "refused"
                                       ELSE IF reset THEN "reading-credential"
                                       ELSE "reading-account"])

-----------------------------------------------------------------------------
(* The transactions.                                                       *)

InTransaction(v) == request[v].phase \in {"revoking", "committing"}

AccountLocked ==
  \E v \in Requests : InTransaction(v) /\
    request[v].op \in {"provision", "complete-verification", "set-status"}

CredentialLocked ==
  \E v \in Requests : InTransaction(v) /\
    request[v].op \in {"provision", "change-password", "complete-reset"}

ChallengeLocked(c) ==
  \E v \in Requests : InTransaction(v) /\ request[v].challenge = c

SessionLocked(s) ==
  \E v \in Requests : request[v].phase = "committing" /\ s \in request[v].writes

\* The calls after which no session that existed before may be live.
EndsSessions(q) ==
  \/ q.op \in {"sign-out-all", "change-password", "complete-reset"}
  \/ q.op = "set-status" /\ q.status # "ACTIVE"

\* Which sessions exist when the transaction begins is remembered for the properties.
Transacts(r, q) ==
  Goto(r, IF EndsSessions(q)
          THEN [q EXCEPT !.known = {s \in Sessions : session[s].state # "NONE"}]
          ELSE q)

Commits(r) == Transacts(r, [request[r] EXCEPT !.phase = "committing"])

\* The transaction is rolled back and the caller gets an error: a domain error, or an
\* exception of the database or of a version check.
Refuses(r) == Answer(r, "refused")

Fails(r) == Answer(r, "failed")

\* createAccount (ON CONFLICT DO NOTHING) and the first credential.
ExecuteProvision(r) ==
  /\ request[r].op = "provision"
  /\ ~AccountLocked
  /\ IF account.status = "NONE" THEN Commits(r) ELSE Refuses(r)

\* createSession: a new row under a fresh uuid.  Nothing is checked again.
ExecuteSignIn(r) ==
  /\ request[r].op = "sign-in"
  /\ \E s \in Sessions :
       /\ session[s].state = "NONE" /\ ~SessionLocked(s)
       /\ Goto(r, [request[r] EXCEPT !.phase = "committing", !.writes = {s}])

AnyVersion(q) == TRUE   \* mutant: the UPDATE does not compare the version

VersionMatches(q) == session[q.session].version = q.version

\* replaceSessionIfVersionMatches: a sign-out that loses ends without an error.
ReplaceSession(r) ==
  LET q == request[r] IN
  /\ q.op \in {"rotate", "sign-out"}
  /\ ~SessionLocked(q.session)
  /\ session[q.session].version < MaxVersion
  /\ IF VersionMatches(q)
     THEN Goto(r, [q EXCEPT !.phase = "committing", !.writes = {q.session}])
     ELSE Answer(r, IF q.op = "rotate" THEN "refused" ELSE "done")

SnapshotOthers(r) ==   \* mutant: the caller's own session is spared
  {s \in Sessions : session[s].state = "LIVE" /\ session[s].secret.by # r}

\* The rows revokeAllSessionsForAccount sees when it starts.
Snapshot(r) == {s \in Sessions : session[s].state = "LIVE"}

Revokes(r) == Transacts(r, [request[r] EXCEPT !.phase = "revoking", !.writes = Snapshot(r)])

ExecuteSignOutAll(r) == request[r].op = "sign-out-all" /\ Revokes(r)

CredentialMatches(q) == credential.version = q.credentialVersion

\* replacePasswordCredential, then the sessions.
ExecuteChangePassword(r) ==
  /\ request[r].op = "change-password"
  /\ ~CredentialLocked
  /\ credential.version < MaxVersion
  /\ IF CredentialMatches(request[r]) THEN Revokes(r) ELSE Fails(r)

ConsumableAgain(q) == challenge[q.challenge].expiresAt > q.now   \* mutant

\* consumeChallengeIfActive.
Consumable(q) ==
  challenge[q.challenge].state = "ACTIVE" /\ challenge[q.challenge].expiresAt > q.now

ExecuteCompleteReset(r) ==
  LET q == request[r] IN
  /\ q.op = "complete-reset"
  /\ ~ChallengeLocked(q.challenge) /\ ~CredentialLocked
  /\ credential.version < MaxVersion
  /\ IF ~Consumable(q) THEN Refuses(r)
     ELSE IF CredentialMatches(q) THEN Revokes(r) ELSE Fails(r)

\* createChallenge under a fresh uuid, and the delivery of its secret.
ExecuteRequestChallenge(r) ==
  /\ request[r].op \in {"request-reset", "request-verification"}
  /\ \E c \in Challenges :
       /\ challenge[c].state = "NONE" /\ ~ChallengeLocked(c)
       /\ Goto(r, [request[r] EXCEPT !.phase = "committing", !.challenge = c])

AnyAccount(v) == TRUE   \* mutant: the UPDATE does not compare the version

AccountMatches(v) == account.version = v

\* consumeChallengeIfActive, then replaceAccountIfVersionMatches.  markEmailVerified
\* leaves a verified account as it is, which requireNextVersion rejects.
ExecuteCompleteVerification(r) ==
  LET q == request[r] IN
  /\ q.op = "complete-verification"
  /\ ~ChallengeLocked(q.challenge) /\ ~AccountLocked
  /\ account.version < MaxVersion
  /\ IF ~Consumable(q) THEN Refuses(r)
     ELSE IF q.account.verified = "yes" THEN Fails(r)
     ELSE IF AccountMatches(q.account.version) THEN Commits(r) ELSE Refuses(r)

SetStatusSparesSuspended(r) ==   \* mutant: only a DISABLED account loses its sessions
  LET q == request[r] IN
  /\ q.op = "set-status"
  /\ ~AccountLocked
  /\ account.version < MaxVersion
  /\ IF q.account.status = q.status THEN Fails(r)
     ELSE IF ~AccountMatches(q.version) THEN Refuses(r)
     ELSE IF q.status # "DISABLED" THEN Commits(r) ELSE Revokes(r)

\* replaceAccountIfVersionMatches, and the sessions of an account no longer ACTIVE.
\* changeAccountStatus leaves the account as it is when the status is the same.
ExecuteSetAccountStatus(r) ==
  LET q == request[r] IN
  /\ q.op = "set-status"
  /\ ~AccountLocked
  /\ account.version < MaxVersion
  /\ IF q.account.status = q.status THEN Fails(r)
     ELSE IF ~AccountMatches(q.version) THEN Refuses(r)
     ELSE IF q.status = "ACTIVE" THEN Commits(r) ELSE Revokes(r)

Execute(r) ==
  /\ request[r].phase = "executing"
  /\ \/ ExecuteProvision(r)
     \/ ExecuteSignIn(r)
     \/ ReplaceSession(r)
     \/ ExecuteSignOutAll(r)
     \/ ExecuteChangePassword(r)
     \/ ExecuteCompleteReset(r)
     \/ ExecuteRequestChallenge(r)
     \/ ExecuteCompleteVerification(r)
     \/ ExecuteSetAccountStatus(r)

\* The UPDATE of revokeAllSessionsForAccount locks the rows of its snapshot, waiting
\* for those another transaction writes, and drops those it then finds revoked.  A
\* session created after this call read the clock fails CHECK (revoked_at >= created_at).
Revoke(r) ==
  LET q == request[r]
      targets == {s \in q.writes : session[s].state = "LIVE"}
  IN /\ q.phase = "revoking"
     /\ \A s \in q.writes : ~SessionLocked(s) /\ session[s].version < MaxVersion
     /\ IF \A s \in targets : session[s].createdAt <= q.now
        THEN Goto(r, [q EXCEPT !.phase = "committing", !.writes = targets])
        ELSE Fails(r)

-----------------------------------------------------------------------------
(* COMMIT.                                                                 *)

NewSession(r) ==
  [state |-> "LIVE", version |-> 1, secret |-> [version |-> 1, by |-> r],
   createdAt |-> request[r].now, expiresAt |-> request[r].now + SessionTtl]

RotatedSameSecret(r, s) ==   \* mutant: the new secret is not stored
  [session[s] EXCEPT !.state = "LIVE", !.version = request[r].version + 1]

\* rotateSession: every field but the secret and rotated_at as it was read.
Rotated(r, s) ==
  [session[s] EXCEPT !.state = "LIVE", !.version = request[r].version + 1,
                     !.secret = [version |-> request[r].version + 1, by |-> r]]

Revoked(s) == [session[s] EXCEPT !.state = "REVOKED", !.version = @ + 1]

NewSessionRow(r, s) ==
  CASE request[r].op = "sign-in" -> NewSession(r)
    [] request[r].op = "rotate" -> Rotated(r, s)
    [] OTHER -> Revoked(s)

NewAccount(q) ==
  CASE q.op = "provision" -> [status |-> "ACTIVE", verified |-> "no", version |-> 1]
    [] q.op = "complete-verification" ->
         [q.account EXCEPT !.verified = "yes", !.version = @ + 1]
    [] q.op = "set-status" -> [q.account EXCEPT !.status = q.status, !.version = @ + 1]
    [] OTHER -> account

NewCredential(q) ==
  IF q.op \in {"provision", "change-password", "complete-reset"}
  THEN [password |-> q.newPassword, version |-> q.credentialVersion + 1]
  ELSE credential

NewChallenge(q) ==
  CASE q.op = "request-reset" ->
         [kind |-> "PASSWORD_RESET", state |-> "ACTIVE", expiresAt |-> q.now + ChallengeTtl]
    [] q.op = "request-verification" ->
         [kind |-> "EMAIL_VERIFICATION", state |-> "ACTIVE", expiresAt |-> q.now + ChallengeTtl]
    [] q.op \in {"complete-reset", "complete-verification"} ->
         [challenge[q.challenge] EXCEPT !.state = "CONSUMED"]

\* The reply may be lost after the transaction took effect.
Commit(r, heard) ==
  LET q == request[r] IN
  /\ q.phase = "committing"
  /\ session' = [s \in Sessions |-> IF s \in q.writes THEN NewSessionRow(r, s) ELSE session[s]]
  /\ account' = NewAccount(q)
  /\ credential' = NewCredential(q)
  /\ challenge' = IF q.challenge = NoChallenge THEN challenge
                  ELSE [challenge EXCEPT ![q.challenge] = NewChallenge(q)]
  /\ told' = IF heard /\ q.op \in {"sign-in", "rotate"}
             THEN told \union {[session |-> s, secret |-> session'[s].secret] : s \in q.writes}
             ELSE told
  /\ ended' = ended \union q.known
  /\ seen' = [s \in Sessions |->
       IF q.op = "sign-in" /\ s \in q.writes THEN q.account.version ELSE seen[s]]
  /\ deactivated' = IF q.op = "set-status" /\ q.status # "ACTIVE" THEN account'.version
                    ELSE deactivated
  /\ request' = [request EXCEPT ![r] =
       IF heard THEN [Idle EXCEPT !.op = q.op, !.phase = "done",
                                  !.session = q.session, !.secret = q.secret]
                ELSE Idle]
  /\ UNCHANGED now

-----------------------------------------------------------------------------
(* The environment.                                                        *)

\* The process dies, the caller goes away, or a statement, an audit record or a role
\* lookup fails: a transaction in progress is rolled back.
Abort(r) ==
  /\ request[r].phase \notin Answers \union {"idle"}
  /\ Goto(r, Idle)

Return(r) == request[r].phase \in Answers /\ Goto(r, Idle)

Tick ==
  /\ now < MaxTime
  /\ now' = now + 1
  /\ UNCHANGED <<rows, request, told, past>>

Start(r) ==
  \/ \E p \in Passwords : Provision(r, p) \/ SignIn(r, p)
  \/ \E op \in {"authenticate", "rotate", "sign-out"}, t \in told : WithSecret(r, op, t)
  \/ \E op \in {"request-reset", "request-verification"} : RequestChallenge(r, op)
  \/ \E c \in Challenges, p \in Passwords : CompleteReset(r, c, p)
  \/ \E c \in Challenges : CompleteVerification(r, c)
  \/ \E v \in 1..MaxVersion, status \in Statuses : SetAccountStatus(r, v, status)
  \/ SignOutAll(r)
  \/ \E p, q \in Passwords : ChangePassword(r, p, q)

Step(r) ==
  \/ ReadSession(r) \/ ReadAccount(r) \/ ReadCredential(r) \/ ReadChallenge(r)
  \/ Execute(r) \/ Revoke(r)
  \/ \E heard \in BOOLEAN : Commit(r, heard)

Next ==
  \/ \E r \in Requests : Start(r) \/ Step(r) \/ Abort(r) \/ Return(r)
  \/ Tick

Spec == Init /\ [][Next]_vars

-----------------------------------------------------------------------------
(* Properties.                                                             *)

\* Every variable has its type.
TypeOK ==
  /\ account \in Account
  /\ credential \in Credential
  /\ session \in [Sessions -> Session]
  /\ challenge \in [Challenges -> Challenge]
  /\ request \in [Requests -> Request]
  /\ now \in Nat
  /\ told \subseteq [session : Sessions, secret : Secret]
  /\ ended \subseteq Sessions
  /\ seen \in [Sessions -> Nat]
  /\ deactivated \in Nat

Committing(r, op) == request[r].phase = "committing" /\ request[r].op = op

\* Of the concurrent rotations of a session one wins: two callers are never both given
\* the secret that follows the same one (authentication.ts rotateCurrentSession).
RotationIsExclusive ==
  \A t, u \in told :
    t.session = u.session /\ t.secret.version = u.secret.version => t = u

\* When signOut returns, the secret it was given opens no session, even when it lost its
\* update to another call (authentication.ts signOut ignores the conflict).
SignedOutSecretIsDead ==
  \A r \in Requests :
    request[r].op = "sign-out" /\ request[r].phase = "done" =>
      LET s == session[request[r].session]
      IN  s.state = "LIVE" => s.secret # request[r].secret

\* A session is live in an account that is not ACTIVE only if its sign-in had read the
\* account before it was deactivated and ended after that transaction had begun: the
\* deactivation ends every session it can see, and no later sign-in succeeds
\* (authentication.ts setAccountStatus and signIn).
InactiveHasNoSessions ==
  account.status # "ACTIVE" =>
    \A s \in Sessions : session[s].state = "LIVE" => s \notin ended /\ seen[s] < deactivated

\* A session that existed when a new password, a reset, a deactivation or a sign-out of
\* all sessions began its transaction is dead once that commits, whatever rotates, signs
\* out or signs in meanwhile, and never comes back; only sign-ins that commit during the
\* transaction or later have live sessions (revokeAllSessionsForAccount).
RevocationIsComplete == \A s \in ended : session[s].state # "LIVE"

\* A password is replaced only by a call that saw the credential it replaces: after it
\* verified the current password, or together with the consumption of its own reset
\* challenge, which was active and can never be used again.
PasswordReplacedOnce ==
  [][credential.version > 0 /\ credential' # credential =>
       \E r \in Requests :
         /\ request[r].credentialVersion = credential.version
         /\ \/ Committing(r, "change-password")
            \/ /\ Committing(r, "complete-reset")
               /\ challenge[request[r].challenge].state = "ACTIVE"
               /\ challenge'[request[r].challenge].state = "CONSUMED"]_vars

\* The status of an account and the verification of its e-mail, two calls that each
\* rewrite the whole row, do not undo one another (replaceAccountIfVersionMatches).
NoLostUpdate ==
  [][account.version > 0 =>
       /\ account.verified = "yes" => account'.verified = "yes"
       /\ account'.status # account.status =>
            \E r \in Requests : Committing(r, "set-status")]_vars

\* A consumed verification challenge verified the e-mail: consumption and the account
\* update succeed or fail together (authentication.ts completeEmailVerification).
VerificationNotWasted ==
  \A c \in Challenges :
    challenge[c].kind = "EMAIL_VERIFICATION" /\ challenge[c].state = "CONSUMED" =>
      account.verified = "yes"

-----------------------------------------------------------------------------
(* The sessions of the account implement their contract.                   *)

StageOf(row) ==
  CASE row.state = "NONE" -> "none"
    [] row.state = "LIVE" -> "live"
    [] row.state = "REVOKED" -> "revoked"

Contract == INSTANCE SessionContract WITH
  Secrets <- [version : 1..MaxVersion, by : Requests],
  stage <- [s \in Sessions |-> StageOf(session[s])],
  secret <- [s \in Sessions |-> session[s].secret]

\* However calls interleave, each transaction acts on a session in one step, and a
\* secret is replaced only for a caller who was given the current one.
ImplementsContract == Contract!Spec
=============================================================================
