----------------------- MODULE IdentitySessionsProofs -----------------------
(***************************************************************************)
(* Theorems about IdentitySessions, for any number of calls, sessions,     *)
(* challenges and passwords, and every choice of operations and policies.  *)
(***************************************************************************)
EXTENDS IdentitySessions, TLAPS

\* The account and its credential are created together.
AccountOK ==
  /\ account.status = "NONE" <=> account.version = 0
  /\ account.version = 0 => account = NoAccount
  /\ account.version = 0 <=> credential.version = 0
  /\ credential.version = 0 => credential.password = NoPassword

\* The secret of a live session is the one issued for the version of its row.
SessionOK(row) ==
  /\ row.version <= MaxVersion
  /\ row.state = "NONE" <=> row.version = 0
  /\ row.state # "NONE" => row.secret \in [version : 1..MaxVersion, by : Requests]
  /\ row.state = "LIVE" => row.secret.version = row.version
  /\ row.state = "REVOKED" => row.secret.version < row.version

\* Every secret callers know was issued for a session, and at most the newest is current.
ToldOK ==
  \A t \in told :
    /\ session[t.session].state # "NONE"
    /\ t.secret.version <= session[t.session].secret.version
    /\ t.secret.version = session[t.session].secret.version =>
         t.secret = session[t.session].secret

\* A verification challenge is one of an account; consumed, it has verified its e-mail.
ChallengeOK(row) ==
  row.kind = "EMAIL_VERIFICATION" /\ row.state # "NONE" =>
    /\ account.version > 0
    /\ row.state = "CONSUMED" => account.verified = "yes"

\* What the properties remember: an ended session was revoked, and every sign-in had read
\* the account as it is or was.
PastOK ==
  /\ \A s \in ended : session[s].state = "REVOKED"
  /\ \A s \in Sessions : seen[s] <= account.version

-----------------------------------------------------------------------------
(* What a call may rely on.                                                *)

Executing == {"executing", "revoking", "committing"}
InTx(q) == q.phase \in {"revoking", "committing"}
Active(q) == q.phase \notin Answers \union {"idle"}

SecretOps == {"authenticate", "rotate", "sign-out"}
ResetOps == {"change-password", "complete-reset"}
RequestOps == {"request-reset", "request-verification"}
CompleteOps == {"complete-reset", "complete-verification"}
AccountOps == {"provision", "complete-verification", "set-status"}
CredentialOps == {"provision"} \union ResetOps
RevokingOps == ResetOps \union {"sign-out-all", "set-status"}

\* Which operation gets to which phase.
OperationOK(q) ==
  /\ q.phase = "reading-session" => q.op \in SecretOps
  /\ q.phase = "reading-account" => q.op \in {"sign-in", "authenticate", "rotate",
                                              "complete-verification", "set-status"}
                                              \union RequestOps
  /\ q.phase = "reading-credential" => q.op \in {"sign-in"} \union ResetOps
  /\ q.phase = "reading-challenge" => q.op \in CompleteOps
  /\ q.phase = "revoking" => q.op \in RevokingOps
  /\ q.phase \in {"executing", "committing"} => q.op \notin {"none", "authenticate"}
  /\ ~InTx(q) => q.writes = {} /\ q.known = {}

\* The rows it read: a row of the same version is still the same row.
ReadsOK(q) ==
  /\ q.account.version <= account.version
  /\ q.account.version = account.version => q.account = account
  /\ q.account.status = "ACTIVE" /\ account.status # "ACTIVE" => q.account.version < deactivated
  /\ q.op = "sign-in" /\ q.phase \in Executing => q.account.status = "ACTIVE"
  /\ q.op = "set-status" /\ Active(q) =>
       /\ q.version > 0 /\ q.status # "NONE"
       /\ q.phase \in Executing => q.account.version = q.version
  /\ q.op = "change-password" /\ q.phase = "reading-credential" => q.password # NoPassword
  /\ q.op \in ResetOps /\ q.phase \in Executing => q.credentialVersion > 0
  /\ q.op = "request-verification" /\ q.phase \in Executing => account.version > 0

\* The session whose secret it presents: of the version it read, it still has that secret.
PresentsOK(q) ==
  q.op \in SecretOps /\ q.phase # "idle" =>
    LET row == session[q.session] IN
    /\ [session |-> q.session, secret |-> q.secret] \in told
    /\ Active(q) /\ q.phase # "reading-session" =>
         /\ q.secret.version = q.version /\ q.version <= row.version
         /\ q.version = row.version => row.state = "LIVE" /\ row.secret = q.secret
    /\ q.op = "sign-out" /\ q.phase = "done" /\ row.state = "LIVE" => row.secret # q.secret

\* The challenge it completes, or creates.
CompletesOK(q) ==
  /\ q.op \in CompleteOps /\ Active(q) =>
       /\ q.challenge \in Challenges /\ challenge[q.challenge].state # "NONE"
       /\ q.phase # "reading-challenge" =>
            challenge[q.challenge].kind = IF q.op = "complete-reset" THEN "PASSWORD_RESET"
                                          ELSE "EMAIL_VERIFICATION"
  /\ q.op \in RequestOps /\ q.phase = "committing" =>
       q.challenge \in Challenges /\ challenge[q.challenge].state = "NONE"
  /\ ~(q.op \in CompleteOps /\ Active(q)) /\ ~(q.op \in RequestOps /\ q.phase = "committing")
       => q.challenge = NoChallenge

\* In its transaction: the rows it is going to write are what it compared them with.
TransactionOK(q) ==
  InTx(q) =>
    /\ q.op = "provision" => account.version = 0
    /\ q.op \in {"complete-verification", "set-status"} =>
         q.account = account /\ account.version > 0
    /\ q.op \in ResetOps => q.credentialVersion = credential.version
    /\ q.op \in CompleteOps => challenge[q.challenge].state = "ACTIVE"
    /\ EndsSessions(q) \/ q.known = {}
    /\ \A s \in q.known :
         session[s].state # "NONE" /\ (session[s].state = "LIVE" => s \in q.writes)

\* At COMMIT: the sessions it writes.
WritesOK(q) ==
  q.phase = "committing" =>
    /\ \A s \in q.writes : session[s].version < MaxVersion
    /\ q.op = "sign-in" =>
         \E s \in Sessions : q.writes = {s} /\ session[s].state = "NONE"
    /\ q.op \in {"rotate", "sign-out"} =>
         q.writes = {q.session} /\ session[q.session].version = q.version
    /\ q.op \in RevokingOps => \A s \in q.writes : session[s].state = "LIVE"
    /\ q.op \in {"provision", "complete-verification"} \union RequestOps => q.writes = {}

RequestOK(q) ==
  OperationOK(q) /\ ReadsOK(q) /\ PresentsOK(q) /\ CompletesOK(q) /\ TransactionOK(q)
    /\ WritesOK(q)

\* Row locks: two transactions never write the same row.
Conflict(p, q) ==
  /\ InTx(p) /\ InTx(q)
  /\ \/ p.op \in AccountOps /\ q.op \in AccountOps
     \/ p.op \in CredentialOps /\ q.op \in CredentialOps
     \/ p.challenge # NoChallenge /\ p.challenge = q.challenge
     \/ /\ p.phase = "committing" /\ q.phase = "committing"
        /\ p.writes \intersect q.writes # {}

IndInv ==
  /\ TypeOK
  /\ AccountOK
  /\ \A s \in Sessions : SessionOK(session[s])
  /\ ToldOK /\ RotationIsExclusive
  /\ \A c \in Challenges : ChallengeOK(challenge[c])
  /\ InactiveHasNoSessions /\ PastOK
  /\ \A r \in Requests : RequestOK(request[r])
  /\ \A r, v \in Requests : r # v => ~Conflict(request[r], request[v])

-----------------------------------------------------------------------------
(* Steps of one call that leave the rows alone.                            *)

LEMMA IdleFields ==
  /\ Idle \in Request /\ NoAccount \in Account
  /\ Idle.op = "none" /\ Idle.phase = "idle" /\ Idle.session = NoSession
  /\ Idle.challenge = NoChallenge /\ Idle.account = NoAccount
  /\ Idle.writes = {} /\ Idle.known = {}
  /\ Idle.version = 0 /\ Idle.credentialVersion = 0
<1>1. NoAccount \in Account /\ NoSecret \in Secret
  BY DEF NoAccount, Account, NoSecret, Secret
<1> QED
  BY <1>1 DEF Idle, Request, Phases, AllOps

LEMMA RequestFields ==
  ASSUME NEW q \in Request
  PROVE  /\ q.op \in AllOps \union {"none"} /\ q.phase \in Phases /\ q.now \in Nat
         /\ q.session \in Sessions \union {NoSession} /\ q.secret \in Secret
         /\ q.challenge \in Challenges \union {NoChallenge}
         /\ q.password \in Passwords \union {NoPassword}
         /\ q.newPassword \in Passwords \union {NoPassword}
         /\ q.status \in Statuses \union {"NONE"} /\ q.account \in Account
         /\ q.credentialVersion \in Nat /\ q.version \in Nat
         /\ q.writes \in SUBSET Sessions /\ q.known \in SUBSET Sessions
BY DEF Request

\* The invariant, as the facts most steps need.
LEMMA Facts ==
  ASSUME IndInv, NEW r \in Requests
  PROVE  /\ request[r] \in Request /\ account \in Account /\ credential \in Credential
         /\ RequestOK(request[r])
         /\ \A s \in Sessions : session[s] \in Session /\ SessionOK(session[s])
         /\ \A c \in Challenges : challenge[c] \in Challenge
         /\ told \subseteq [session : Sessions, secret : Secret] /\ now \in Nat
BY DEF IndInv, TypeOK

LEMMA ConflictIsSymmetric ==
  ASSUME NEW p, NEW q, Conflict(p, q)
  PROVE  Conflict(q, p)
BY DEF Conflict

\* Only the call itself changes: what it may rely on must hold, and its rows be unlocked.
LEMMA CallStep ==
  ASSUME IndInv, NEW r \in Requests, NEW q \in Request, Goto(r, q), RequestOK(q),
         \A v \in Requests \ {r} : ~Conflict(q, request[v])
  PROVE  IndInv'
<1>1. /\ UNCHANGED <<account, credential, session, challenge, now, told,
                      ended, seen, deactivated>>
      /\ request' \in [Requests -> Request] /\ request'[r] = q
      /\ \A v \in Requests \ {r} : request'[v] = request[v]
  BY DEF Goto, rows, past, IndInv, TypeOK
<1>2. TypeOK'
  BY <1>1 DEF IndInv, TypeOK
<1>3. AccountOK' /\ ToldOK' /\ RotationIsExclusive' /\ InactiveHasNoSessions' /\ PastOK'
  BY <1>1 DEF IndInv, AccountOK, ToldOK, RotationIsExclusive, InactiveHasNoSessions, PastOK
<1>4. /\ \A s \in Sessions : SessionOK(session[s])'
      /\ \A c \in Challenges : ChallengeOK(challenge[c])'
  BY <1>1 DEF IndInv, SessionOK, ChallengeOK
<1>5. ASSUME NEW v \in Requests PROVE RequestOK(request[v])'
  <2>1. RequestOK(request'[v])
    BY <1>1 DEF IndInv
  <2>2. OperationOK(request[v])' /\ ReadsOK(request[v])'
    BY <1>1, <2>1 DEF RequestOK, OperationOK, ReadsOK, InTx, Active
  <2>3. PresentsOK(request[v])' /\ CompletesOK(request[v])'
    BY <1>1, <2>1 DEF RequestOK, PresentsOK, CompletesOK, Active
  <2>4. TransactionOK(request[v])' /\ WritesOK(request[v])'
    BY <1>1, <2>1 DEF RequestOK, TransactionOK, WritesOK, InTx
  <2> QED
    BY <2>2, <2>3, <2>4 DEF RequestOK
<1>6. ASSUME NEW u \in Requests, NEW v \in Requests, u # v
      PROVE  ~Conflict(request[u], request[v])'
  <2>1. ~Conflict(request'[u], request'[v])
    BY <1>1, <1>6, ConflictIsSymmetric DEF IndInv
  <2> QED
    BY <2>1 DEF Conflict, InTx
<1> QED
  BY <1>2, <1>3, <1>4, <1>5, <1>6 DEF IndInv

\* The same outside a transaction.
LEMMA QuietStep ==
  ASSUME IndInv, NEW r \in Requests, NEW q \in Request, Goto(r, q), ~InTx(q),
         OperationOK(q), ReadsOK(q), PresentsOK(q), CompletesOK(q)
  PROVE  IndInv'
<1>1. TransactionOK(q) /\ WritesOK(q)
  BY DEF TransactionOK, WritesOK, InTx
<1>2. \A v \in Requests : ~Conflict(q, request[v])
  BY DEF Conflict
<1> QED
  BY <1>1, <1>2, CallStep DEF RequestOK

\* The end of a call that is not a COMMIT.
LEMMA AnswerInv ==
  ASSUME IndInv, NEW r \in Requests, NEW a \in Answers, Answer(r, a),
         request[r].phase # "idle",
         request[r].op = "sign-out" /\ a = "done" =>
           LET row == session[request[r].session]
           IN  row.state = "LIVE" => row.secret # request[r].secret
  PROVE  IndInv'
<1> DEFINE q == [Idle EXCEPT !.op = request[r].op, !.phase = a,
                             !.session = request[r].session, !.secret = request[r].secret]
<1>1. request[r] \in Request /\ PresentsOK(request[r]) /\ AccountOK /\ account \in Account
  BY Facts DEF IndInv, RequestOK
<1>2. /\ q \in Request /\ q.op = request[r].op /\ q.phase = a /\ q.writes = {} /\ q.known = {}
      /\ q.session = request[r].session /\ q.secret = request[r].secret
      /\ q.challenge = NoChallenge /\ q.account = NoAccount
  BY <1>1, IdleFields DEF Request, Phases
<1> HIDE DEF q
<1>3. a \in {"authenticated", "done", "refused", "failed"}
  BY DEF Answers
<1>4. Goto(r, q) /\ ~InTx(q)
  BY <1>2, <1>3 DEF Answer, q, InTx
<1>5. OperationOK(q)
  BY <1>2, <1>3 DEF OperationOK
<1>6. ReadsOK(q)
  BY <1>1, <1>2, <1>3 DEF ReadsOK, AccountOK, Active, Answers, Executing, NoAccount, Account
<1>7. PresentsOK(q) /\ CompletesOK(q)
  BY <1>1, <1>2, <1>3 DEF PresentsOK, CompletesOK, Active, Answers
<1> QED
  BY <1>2, <1>4, <1>5, <1>6, <1>7, QuietStep

\* Crash of the process, a failing statement, or the caller takes the answer.
LEMMA IdleInv == ASSUME IndInv, NEW r \in Requests, Goto(r, Idle) PROVE IndInv'
<1>1. AccountOK /\ account \in Account
  BY DEF IndInv, TypeOK
<1>2. OperationOK(Idle) /\ PresentsOK(Idle) /\ CompletesOK(Idle) /\ ~InTx(Idle)
  BY IdleFields DEF OperationOK, PresentsOK, CompletesOK, InTx,
                   SecretOps, CompleteOps, RequestOps
<1>3. ReadsOK(Idle)
  BY <1>1, IdleFields
     DEF ReadsOK, AccountOK, Active, Executing, NoAccount, Account, ResetOps
<1> QED
  BY <1>2, <1>3, IdleFields, QuietStep

\* A call starts: it has read nothing yet.
LEMMA StartStep ==
  ASSUME IndInv, NEW r \in Requests, NEW q \in Request, Goto(r, q),
         q.phase \in {"executing", "reading-account", "reading-credential",
                      "reading-session", "reading-challenge"},
         q.account = NoAccount, q.writes = {} /\ q.known = {},
         OperationOK(q), PresentsOK(q), CompletesOK(q),
         q.phase = "executing" => q.op \in {"provision", "sign-out-all"},
         q.op = "set-status" => q.version > 0 /\ q.status # "NONE",
         q.op = "change-password" => q.password # NoPassword
  PROVE  IndInv'
<1>1. AccountOK /\ account \in Account
  BY DEF IndInv, TypeOK
<1>2. ~InTx(q)
  BY DEF InTx
<1>3. ReadsOK(q)
  BY <1>1 DEF ReadsOK, AccountOK, Active, Executing, NoAccount, Account, ResetOps
<1> QED
  BY <1>2, <1>3, QuietStep

LEMMA CallFields ==
  ASSUME IndInv, NEW op \in AllOps, NEW phase \in Phases
  PROVE  /\ Call(op, phase) \in Request
         /\ Call(op, phase).op = op /\ Call(op, phase).phase = phase
         /\ Call(op, phase).account = NoAccount /\ Call(op, phase).writes = {}
         /\ Call(op, phase).known = {}
         /\ Call(op, phase).challenge = NoChallenge /\ Call(op, phase).session = NoSession
BY IdleFields DEF Call, Request, IndInv, TypeOK

LEMMA StartInv == ASSUME IndInv, NEW r \in Requests, Start(r) PROVE IndInv'
<1>1. ASSUME NEW p \in Passwords, Provision(r, p) \/ SignIn(r, p) PROVE IndInv'
  <2> DEFINE q == [Call("provision", "executing") EXCEPT !.newPassword = p]
             t == [Call("sign-in", "reading-account") EXCEPT !.password = p]
  <2>1. /\ q \in Request /\ q.op = "provision" /\ q.phase = "executing"
        /\ q.account = NoAccount /\ q.writes = {} /\ q.known = {} /\ q.challenge = NoChallenge
    BY CallFields DEF Request, AllOps, Phases
  <2>2. /\ t \in Request /\ t.op = "sign-in" /\ t.phase = "reading-account"
        /\ t.account = NoAccount /\ t.writes = {} /\ t.known = {} /\ t.challenge = NoChallenge
    BY CallFields DEF Request, AllOps, Phases
  <2>3. Goto(r, q) \/ Goto(r, t)
    BY <1>1 DEF Provision, SignIn, Begin
  <2> HIDE DEF q, t
  <2>4. OperationOK(q) /\ PresentsOK(q) /\ CompletesOK(q)
    BY <2>1 DEF OperationOK, PresentsOK, CompletesOK, InTx, Active, Answers, SecretOps,
                   CompleteOps, RequestOps
  <2>5. OperationOK(t) /\ PresentsOK(t) /\ CompletesOK(t)
    BY <2>2 DEF OperationOK, PresentsOK, CompletesOK, InTx, Active, Answers, SecretOps,
                   CompleteOps, RequestOps
  <2> QED
    BY <2>1, <2>2, <2>3, <2>4, <2>5, StartStep
<1>2. ASSUME NEW op \in SecretOps, NEW t \in told, WithSecret(r, op, t) PROVE IndInv'
  <2> DEFINE b == Call(op, "reading-session")
  <2>0. /\ b \in Request /\ b.op = op /\ b.phase = "reading-session"
        /\ b.account = NoAccount /\ b.writes = {} /\ b.known = {} /\ b.challenge = NoChallenge
    BY CallFields DEF AllOps, Phases, SecretOps
  <2> HIDE DEF b
  <2> DEFINE q == [b EXCEPT !.session = t.session, !.secret = t.secret]
  <2>1. t \in [session : Sessions, secret : Secret] /\ op \in AllOps
    BY DEF IndInv, TypeOK, SecretOps, AllOps
  <2>2. /\ q \in Request /\ q.op = op /\ q.phase = "reading-session"
        /\ q.account = NoAccount /\ q.writes = {} /\ q.known = {} /\ q.challenge = NoChallenge
        /\ q.session = t.session /\ q.secret = t.secret
    BY <2>1, <2>0 DEF Request, AllOps
  <2>3. Goto(r, q)
    BY <1>2 DEF WithSecret, Begin, b
  <2> HIDE DEF q
  <2>4. [session |-> q.session, secret |-> q.secret] = t
    BY <2>1, <2>2
  <2>5. OperationOK(q) /\ PresentsOK(q) /\ CompletesOK(q)
    BY <2>2, <2>4
       DEF OperationOK, PresentsOK, CompletesOK, InTx, Active, Answers, SecretOps, CompleteOps,
           RequestOps
  <2> QED
    BY <2>2, <2>3, <2>5, StartStep DEF SecretOps
<1>3. ASSUME NEW op \in RequestOps, RequestChallenge(r, op) PROVE IndInv'
  <2> DEFINE q == Call(op, "reading-account")
  <2>1. /\ q \in Request /\ q.op = op /\ q.phase = "reading-account"
        /\ q.account = NoAccount /\ q.writes = {} /\ q.known = {} /\ q.challenge = NoChallenge
    BY CallFields DEF RequestOps, AllOps, Phases
  <2>2. Goto(r, q)
    BY <1>3 DEF RequestChallenge, Begin
  <2> HIDE DEF q
  <2>3. OperationOK(q) /\ PresentsOK(q) /\ CompletesOK(q)
    BY <2>1 DEF OperationOK, PresentsOK, CompletesOK, InTx, Active, Answers, SecretOps,
                   CompleteOps, RequestOps
  <2> QED
    BY <2>1, <2>2, <2>3, StartStep DEF RequestOps
<1>4. ASSUME NEW c \in Challenges, NEW p \in Passwords, CompleteReset(r, c, p) PROVE IndInv'
  <2> DEFINE b == Call("complete-reset", "reading-challenge")
  <2>0. /\ b \in Request /\ b.op = "complete-reset" /\ b.phase = "reading-challenge"
        /\ b.account = NoAccount /\ b.writes = {} /\ b.known = {} /\ b.challenge = NoChallenge
    BY CallFields DEF AllOps, Phases, SecretOps
  <2> HIDE DEF b
  <2> DEFINE q == [b
                     EXCEPT !.challenge = c, !.newPassword = p]
  <2>1. /\ q \in Request /\ q.op = "complete-reset" /\ q.phase = "reading-challenge"
        /\ q.account = NoAccount /\ q.writes = {} /\ q.known = {} /\ q.challenge = c
    BY <2>0 DEF Request, AllOps
  <2>2. Goto(r, q) /\ challenge[c].state # "NONE"
    BY <1>4 DEF CompleteReset, Begin, b
  <2> HIDE DEF q
  <2>3. OperationOK(q) /\ PresentsOK(q) /\ CompletesOK(q)
    BY <2>1, <2>2 DEF OperationOK, PresentsOK, CompletesOK, InTx, Active, Answers,
                      SecretOps, CompleteOps, RequestOps
  <2> QED
    BY <2>1, <2>2, <2>3, StartStep
<1>5. ASSUME NEW c \in Challenges, CompleteVerification(r, c) PROVE IndInv'
  <2> DEFINE b == Call("complete-verification", "reading-challenge")
  <2>0. /\ b \in Request /\ b.op = "complete-verification" /\ b.phase = "reading-challenge"
        /\ b.account = NoAccount /\ b.writes = {} /\ b.known = {} /\ b.challenge = NoChallenge
    BY CallFields DEF AllOps, Phases, SecretOps
  <2> HIDE DEF b
  <2> DEFINE t == [b EXCEPT !.challenge = c]
  <2>1. /\ t \in Request /\ t.op = "complete-verification" /\ t.phase = "reading-challenge"
        /\ t.account = NoAccount /\ t.writes = {} /\ t.known = {} /\ t.challenge = c
    BY <2>0 DEF Request, AllOps
  <2>2. Goto(r, t) /\ challenge[c].state # "NONE"
    BY <1>5 DEF CompleteVerification, Begin, b
  <2> HIDE DEF t
  <2>3. OperationOK(t) /\ PresentsOK(t) /\ CompletesOK(t)
    BY <2>1, <2>2 DEF OperationOK, PresentsOK, CompletesOK, InTx, Active, Answers,
                      SecretOps, CompleteOps, RequestOps
  <2> QED
    BY <2>1, <2>2, <2>3, StartStep
<1>6. ASSUME NEW v \in 1..MaxVersion, NEW status \in Statuses, SetAccountStatus(r, v, status)
      PROVE  IndInv'
  <2> DEFINE b == Call("set-status", "reading-account")
  <2>0. /\ b \in Request /\ b.op = "set-status" /\ b.phase = "reading-account"
        /\ b.account = NoAccount /\ b.writes = {} /\ b.known = {} /\ b.challenge = NoChallenge
    BY CallFields DEF AllOps, Phases, SecretOps
  <2> HIDE DEF b
  <2> DEFINE q == [b EXCEPT !.version = v, !.status = status]
  <2>1. v \in Nat /\ v > 0 /\ status # "NONE"
    BY IdentityAssumption
  <2>2. /\ q \in Request /\ q.op = "set-status" /\ q.phase = "reading-account"
        /\ q.account = NoAccount /\ q.writes = {} /\ q.known = {}
        /\ q.challenge = NoChallenge /\ q.version = v
        /\ q.status = status
    BY <2>1, <2>0 DEF Request, AllOps
  <2>3. Goto(r, q)
    BY <1>6 DEF SetAccountStatus, Begin, b
  <2> HIDE DEF q
  <2>4. OperationOK(q) /\ PresentsOK(q) /\ CompletesOK(q)
    BY <2>2 DEF OperationOK, PresentsOK, CompletesOK, InTx, Active, Answers, SecretOps,
                   CompleteOps, RequestOps
  <2> QED
    BY <2>1, <2>2, <2>3, <2>4, StartStep
<1>7. ASSUME SignOutAll(r) PROVE IndInv'
  <2> DEFINE q == Call("sign-out-all", "executing")
  <2>1. /\ q \in Request /\ q.op = "sign-out-all" /\ q.phase = "executing"
        /\ q.account = NoAccount /\ q.writes = {} /\ q.known = {} /\ q.challenge = NoChallenge
    BY CallFields DEF AllOps, Phases
  <2>2. Goto(r, q)
    BY <1>7 DEF SignOutAll, Continue
  <2> HIDE DEF q
  <2>3. OperationOK(q) /\ PresentsOK(q) /\ CompletesOK(q)
    BY <2>1 DEF OperationOK, PresentsOK, CompletesOK, InTx, Active, Answers, SecretOps,
                   CompleteOps, RequestOps
  <2> QED
    BY <2>1, <2>2, <2>3, StartStep
<1>8. ASSUME NEW p \in Passwords, NEW n \in Passwords, ChangePassword(r, p, n) PROVE IndInv'
  <2> DEFINE b == Call("change-password", "reading-credential")
  <2>0. /\ b \in Request /\ b.op = "change-password" /\ b.phase = "reading-credential"
        /\ b.account = NoAccount /\ b.writes = {} /\ b.known = {} /\ b.challenge = NoChallenge
    BY CallFields DEF AllOps, Phases, SecretOps
  <2> HIDE DEF b
  <2> DEFINE q == [b
                     EXCEPT !.password = p, !.newPassword = n]
  <2>1. /\ q \in Request /\ q.op = "change-password" /\ q.phase = "reading-credential"
        /\ q.account = NoAccount /\ q.writes = {} /\ q.known = {} /\ q.challenge = NoChallenge
        /\ q.password = p
    BY <2>0 DEF Request, AllOps
  <2>2. Goto(r, q) /\ p # NoPassword
    BY <1>8, IdentityAssumption DEF ChangePassword, Continue, b
  <2> HIDE DEF q
  <2>3. OperationOK(q) /\ PresentsOK(q) /\ CompletesOK(q)
    BY <2>1 DEF OperationOK, PresentsOK, CompletesOK, InTx, Active, Answers, SecretOps,
                CompleteOps, RequestOps, ResetOps
  <2> QED
    BY <2>1, <2>2, <2>3, StartStep
<1> QED
  BY <1>1, <1>2, <1>3, <1>4, <1>5, <1>6, <1>7, <1>8 DEF Start, SecretOps, RequestOps

-----------------------------------------------------------------------------
(* The reads.                                                              *)

LEMMA ReadSessionInv == ASSUME IndInv, NEW r \in Requests, ReadSession(r) PROVE IndInv'
<1> DEFINE old == request[r]
           found == session[old.session]
<1>1. /\ old \in Request /\ OperationOK(old) /\ ReadsOK(old) /\ PresentsOK(old)
      /\ CompletesOK(old) /\ old.phase = "reading-session" /\ old.op \in SecretOps
      /\ old.writes = {} /\ old.known = {}
  BY Facts DEF RequestOK, OperationOK, ReadSession, InTx
<1>2. /\ [session |-> old.session, secret |-> old.secret] \in told /\ old.session \in Sessions
      /\ found \in Session /\ SessionOK(found) /\ found.state # "NONE"
  <2>1. [session |-> old.session, secret |-> old.secret] \in told
    BY <1>1 DEF PresentsOK
  <2>2. old.session \in Sessions
    BY <2>1, Facts
  <2> QED
    BY <2>1, <2>2, Facts DEF IndInv, ToldOK
<1>3. ASSUME NEW p \in {"executing", "reading-account"},
             p = "executing" => old.op = "sign-out",
             p = "reading-account" => old.op \in {"authenticate", "rotate"},
             Goto(r, [old EXCEPT !.phase = p, !.version = found.version]),
             found.secret = old.secret, found.state = "LIVE"
      PROVE  IndInv'
  <2> DEFINE q == [old EXCEPT !.phase = p, !.version = found.version]
  <2>1. /\ q \in Request /\ q.op = old.op /\ q.phase = p /\ q.version = found.version
        /\ q.session = old.session /\ q.secret = old.secret /\ q.account = old.account
        /\ q.challenge = old.challenge /\ q.writes = {} /\ q.known = {}
    BY <1>1, <1>2, <1>3 DEF Request, Phases, Session
  <2> HIDE DEF q
  <2>2. OperationOK(q)
    BY <1>1, <1>3, <2>1 DEF OperationOK, InTx
  <2>3. ReadsOK(q)
    BY <1>1, <2>1 DEF ReadsOK, SecretOps, ResetOps
  <2>4. PresentsOK(q)
    BY <1>1, <1>2, <1>3, <2>1 DEF PresentsOK, SessionOK, Session
  <2>5. CompletesOK(q)
    BY <1>1, <2>1 DEF CompletesOK, SecretOps, RequestOps, CompleteOps
  <2>6. Goto(r, q) /\ ~InTx(q)
    BY <1>3, <2>1 DEF q, InTx
  <2> QED
    BY <2>1, <2>2, <2>3, <2>4, <2>5, <2>6, QuietStep
<1>4. ASSUME NEW a \in {"done", "refused"}, Answer(r, a),
             ~(found.secret = old.secret /\ found.state = "LIVE") \/ old.op # "sign-out"
      PROVE  IndInv'
  BY <1>1, <1>4, AnswerInv DEF Answers
<1> QED
  BY <1>2, <1>3, <1>4 DEF ReadSession

LEMMA ReadAccountInv == ASSUME IndInv, NEW r \in Requests, ReadAccount(r) PROVE IndInv'
<1> DEFINE old == request[r]
           q == [old EXCEPT !.phase = AfterAccount(old), !.account = account]
<1>1. /\ old \in Request /\ OperationOK(old) /\ ReadsOK(old) /\ PresentsOK(old)
      /\ CompletesOK(old) /\ old.phase = "reading-account" /\ old.writes = {} /\ old.known = {}
      /\ account \in Account /\ AccountOK
  BY Facts DEF RequestOK, OperationOK, ReadAccount, InTx, IndInv
<1>2. old.op \in {"sign-in", "authenticate", "rotate", "complete-verification", "set-status",
                  "request-reset", "request-verification"}
  BY <1>1 DEF OperationOK, RequestOps
<1>3. /\ AfterAccount(old) \in {"reading-credential", "executing", "authenticated", "refused",
                                "done"}
      /\ AfterAccount(old) = "reading-credential" => old.op = "sign-in"
      /\ AfterAccount(old) = "executing" =>
           /\ old.op \notin {"sign-in", "authenticate"}
           /\ old.op = "set-status" => account.version = old.version
           /\ old.op = "request-verification" => account.version > 0
  <2>1. account.status # "NONE" => account.version > 0
    BY <1>1 DEF AccountOK, Account
  <2> QED
    BY <1>2, <2>1 DEF AfterAccount, AfterRequest
<1>4. CASE AfterAccount(old) \in Answers
  <2>1. q.phase = AfterAccount(old)
    BY <1>1 DEF Request
  <2>2. Answer(r, AfterAccount(old))
    BY <1>4, <2>1 DEF ReadAccount, Proceed
  <2> QED
    BY <1>1, <1>2, <1>4, <2>2, AnswerInv
<1>5. CASE AfterAccount(old) \notin Answers
  <2>1. /\ q \in Request /\ q.op = old.op /\ q.phase = AfterAccount(old)
        /\ q.phase \in {"reading-credential", "executing"} /\ q.account = account
        /\ q.session = old.session /\ q.secret = old.secret /\ q.version = old.version
        /\ q.challenge = old.challenge /\ q.writes = {} /\ q.known = {} /\ q.password = old.password
        /\ q.status = old.status
    BY <1>1, <1>3, <1>5 DEF Request, Phases, Answers
  <2>2. Goto(r, q)
    BY <1>5, <2>1 DEF ReadAccount, Proceed
  <2> HIDE DEF q
  <2>3. OperationOK(q) /\ ~InTx(q)
    BY <1>1, <1>2, <1>3, <2>1 DEF OperationOK, InTx
  <2>4. ReadsOK(q)
    BY <1>1, <1>2, <1>3, <2>1
       DEF ReadsOK, Active, Answers, Executing, ResetOps, Account
  <2>5. PresentsOK(q)
    BY <1>1, <1>3, <2>1 DEF PresentsOK, Active, Answers, SecretOps
  <2>6. CompletesOK(q)
    BY <1>1, <1>3, <2>1 DEF CompletesOK, Active, Answers, RequestOps, CompleteOps
  <2> QED
    BY <2>1, <2>2, <2>3, <2>4, <2>5, <2>6, QuietStep
<1> QED
  BY <1>4, <1>5

LEMMA ReadCredentialInv == ASSUME IndInv, NEW r \in Requests, ReadCredential(r) PROVE IndInv'
<1> DEFINE old == request[r]
           p == IF CredentialAccepted(old) THEN "executing" ELSE "refused"
           q == [old EXCEPT !.phase = p, !.credentialVersion = credential.version]
<1>1. /\ old \in Request /\ OperationOK(old) /\ ReadsOK(old) /\ PresentsOK(old)
      /\ CompletesOK(old) /\ old.phase = "reading-credential" /\ old.writes = {} /\ old.known = {}
      /\ account \in Account /\ AccountOK /\ credential \in Credential
  BY Facts DEF RequestOK, OperationOK, ReadCredential, InTx, IndInv
<1>2. old.op \in {"sign-in", "change-password", "complete-reset"}
  BY <1>1 DEF OperationOK, ResetOps
<1>3. /\ q \in Request /\ q.op = old.op /\ q.phase = p /\ q.account = old.account
      /\ q.session = old.session /\ q.secret = old.secret /\ q.version = old.version
      /\ q.challenge = old.challenge /\ q.writes = {} /\ q.known = {}
      /\ q.credentialVersion = credential.version
  <2>1. p \in {"executing", "refused"}
    OBVIOUS
  <2> HIDE DEF p
  <2> QED
    BY <1>1, <2>1 DEF Request, Phases, Answers, Credential
<1>4. CASE ~CredentialAccepted(old)
  <2>1. Answer(r, "refused")
    BY <1>3, <1>4 DEF ReadCredential, Proceed, Answers
  <2> QED
    BY <1>1, <1>2, <2>1, AnswerInv DEF Answers
<1>5. CASE CredentialAccepted(old)
  <2>1. p = "executing"
    BY <1>5
  <2>2. Goto(r, q)
    BY <1>3, <2>1 DEF ReadCredential, Proceed, Answers
  <2>3. /\ old.op = "sign-in" => old.account.status = "ACTIVE"
        /\ old.op \in ResetOps => credential.version > 0
    <3>1. CASE old.op = "sign-in"
      BY <1>5, <3>1 DEF CredentialAccepted, CanAuthenticate, ResetOps
    <3>2. CASE old.op = "change-password"
      <4>1. credential.password # NoPassword
        BY <1>1, <1>5, <3>2 DEF CredentialAccepted, ReadsOK
      <4> QED
        BY <1>1, <3>2, <4>1 DEF AccountOK, Credential
    <3>3. CASE old.op = "complete-reset"
      BY <1>5, <3>3 DEF CredentialAccepted
    <3> QED
      BY <1>2, <3>1, <3>2, <3>3
  <2> HIDE DEF q, p
  <2>4. OperationOK(q) /\ ~InTx(q)
    BY <1>2, <1>3, <2>1 DEF OperationOK, InTx
  <2>5. ReadsOK(q)
    BY <1>1, <1>2, <1>3, <2>1, <2>3 DEF ReadsOK, Executing
  <2>6. PresentsOK(q)
    BY <1>2, <1>3 DEF PresentsOK, SecretOps
  <2>7. CompletesOK(q)
    BY <1>1, <1>3, <2>1 DEF CompletesOK, Active, Answers, RequestOps, CompleteOps
  <2> QED
    BY <1>3, <2>2, <2>4, <2>5, <2>6, <2>7, QuietStep
<1> QED
  BY <1>4, <1>5

LEMMA ReadChallengeInv == ASSUME IndInv, NEW r \in Requests, ReadChallenge(r) PROVE IndInv'
<1> DEFINE old == request[r]
<1>1. /\ old \in Request /\ OperationOK(old) /\ ReadsOK(old) /\ PresentsOK(old)
      /\ CompletesOK(old) /\ old.phase = "reading-challenge" /\ old.writes = {} /\ old.known = {}
  BY Facts DEF RequestOK, OperationOK, ReadChallenge, InTx, IndInv
<1>2. old.op \in {"complete-reset", "complete-verification"}
  BY <1>1 DEF OperationOK, CompleteOps
<1>3. PICK p \in {"refused", "reading-credential", "reading-account"} :
        /\ Proceed(r, [old EXCEPT !.phase = p])
        /\ p # "refused" =>
             /\ challenge[old.challenge].kind = IF old.op = "complete-reset"
                                                THEN "PASSWORD_RESET" ELSE "EMAIL_VERIFICATION"
             /\ p = IF old.op = "complete-reset" THEN "reading-credential"
                    ELSE "reading-account"
  BY <1>2 DEF ReadChallenge
<1> DEFINE q == [old EXCEPT !.phase = p]
<1>4. /\ q \in Request /\ q.op = old.op /\ q.phase = p /\ q.account = old.account
      /\ q.challenge = old.challenge /\ q.writes = {} /\ q.known = {}
  BY <1>1, <1>3 DEF Request, Phases, Answers
<1>5. CASE p = "refused"
  <2>1. Answer(r, "refused")
    BY <1>3, <1>4, <1>5 DEF Proceed, Answers
  <2> QED
    BY <1>1, <1>2, <2>1, AnswerInv DEF Answers
<1>6. CASE p # "refused"
  <2>1. Goto(r, q)
    BY <1>3, <1>4, <1>6 DEF Proceed, Answers
  <2> HIDE DEF q
  <2>2. OperationOK(q) /\ ~InTx(q)
    BY <1>2, <1>3, <1>4, <1>6 DEF OperationOK, InTx, ResetOps
  <2>3. ReadsOK(q)
    BY <1>1, <1>2, <1>3, <1>4, <1>6 DEF ReadsOK, Executing
  <2>4. PresentsOK(q)
    BY <1>2, <1>4 DEF PresentsOK, SecretOps
  <2>5. CompletesOK(q)
    BY <1>1, <1>2, <1>3, <1>4, <1>6 DEF CompletesOK, Active, Answers, RequestOps, CompleteOps
  <2> QED
    BY <1>4, <2>1, <2>2, <2>3, <2>4, <2>5, QuietStep
<1> QED
  BY <1>5, <1>6

-----------------------------------------------------------------------------
(* The transactions, up to COMMIT.                                         *)

\* The call enters its transaction, or the last step of it.
Enter(r, phase, sessions, known) ==
  [request[r] EXCEPT !.phase = phase, !.writes = sessions, !.known = known]

\* A call whose transaction starts relies on what it relied on before.
LEMMA Entered ==
  ASSUME IndInv, NEW r \in Requests, NEW p \in {"revoking", "committing"},
         NEW w \in SUBSET Sessions, NEW k \in SUBSET Sessions,
         request[r].phase \in {"executing", "revoking"},
         request[r].op \notin RequestOps,
         p = "revoking" => request[r].op \in RevokingOps
  PROVE  LET q == Enter(r, p, w, k) IN
         /\ q \in Request /\ q.op = request[r].op /\ q.phase = p
         /\ q.writes = w /\ q.known = k
         /\ q.account = request[r].account /\ q.version = request[r].version
         /\ q.session = request[r].session /\ q.challenge = request[r].challenge
         /\ q.status = request[r].status /\ q.secret = request[r].secret
         /\ q.credentialVersion = request[r].credentialVersion
         /\ OperationOK(q) /\ ReadsOK(q) /\ PresentsOK(q) /\ CompletesOK(q)
<1> DEFINE old == request[r]
           q == Enter(r, p, w, k)
<1>1. /\ old \in Request /\ OperationOK(old) /\ ReadsOK(old) /\ PresentsOK(old)
      /\ CompletesOK(old)
  BY Facts DEF RequestOK
<1>2. /\ q \in Request /\ q.op = old.op /\ q.phase = p /\ q.writes = w /\ q.known = k
      /\ q.account = old.account /\ q.version = old.version
      /\ q.session = old.session /\ q.challenge = old.challenge
      /\ q.status = old.status /\ q.secret = old.secret
      /\ q.credentialVersion = old.credentialVersion
  BY <1>1 DEF Request, Phases, Enter
<1> HIDE DEF q
<1>3. OperationOK(q)
  BY <1>1, <1>2 DEF OperationOK, InTx, RevokingOps, ResetOps
<1>4. ReadsOK(q)
  BY <1>1, <1>2 DEF ReadsOK, Executing, Active, Answers
<1>5. PresentsOK(q)
  BY <1>1, <1>2 DEF PresentsOK, Active, Answers
<1>6. CompletesOK(q)
  BY <1>1, <1>2 DEF CompletesOK, Active, Answers
<1> QED
  BY <1>2, <1>3, <1>4, <1>5, <1>6 DEF q

\* What the rows a transaction has locked are protected from.
LEMMA NoConflict ==
  ASSUME IndInv, NEW r \in Requests, NEW q \in Request, InTx(q),
         q.op \in AccountOps => ~AccountLocked,
         q.op \in CredentialOps => ~CredentialLocked,
         q.challenge # NoChallenge => ~ChallengeLocked(q.challenge),
         q.phase = "committing" => \A s \in q.writes : ~SessionLocked(s)
  PROVE  \A v \in Requests \ {r} : ~Conflict(q, request[v])
BY DEF Conflict, InTx, AccountLocked, CredentialLocked, ChallengeLocked, SessionLocked,
       InTransaction, AccountOps, CredentialOps, ResetOps

LEMMA ProvisionInv ==
  ASSUME IndInv, NEW r \in Requests, request[r].phase = "executing", ExecuteProvision(r)
  PROVE  IndInv'
<1> DEFINE q == Enter(r, "committing", {}, {})
<1>1. /\ request[r] \in Request /\ OperationOK(request[r]) /\ CompletesOK(request[r])
      /\ AccountOK /\ account \in Account
      /\ request[r].writes = {} /\ request[r].known = {} /\ request[r].op = "provision"
      /\ request[r].op \notin RequestOps \union SecretOps \union CompleteOps
  BY Facts DEF IndInv, RequestOK, OperationOK, InTx, ExecuteProvision, RequestOps, SecretOps,
               CompleteOps
<1>2. CASE Refuses(r)
  BY <1>1, <1>2, AnswerInv DEF Refuses, Answers
<1>3. CASE account.status = "NONE" /\ Commits(r)
  <2>1. /\ q \in Request /\ q.op = "provision" /\ q.phase = "committing" /\ q.writes = {}
        /\ q.challenge = request[r].challenge
        /\ OperationOK(q) /\ ReadsOK(q) /\ PresentsOK(q) /\ CompletesOK(q)
    BY <1>1, Entered
  <2>2. Goto(r, q) /\ q.known = {}
    <3> DEFINE p == [request[r] EXCEPT !.phase = "committing"]
    <3>1. p.op = request[r].op /\ p.status = request[r].status /\ p = q /\ q.known = {}
      BY <1>1 DEF Request, Enter
    <3>2. Goto(r, p)
      BY <1>1, <1>3, <3>1 DEF Commits, Transacts, EndsSessions
    <3> QED
      BY <3>1, <3>2
  <2> HIDE DEF q
  <2>3. account.version = 0 /\ q.challenge = NoChallenge
    BY <1>1, <1>3, <2>1 DEF AccountOK, CompletesOK
  <2>4. TransactionOK(q) /\ WritesOK(q)
    BY <2>1, <2>2, <2>3 DEF TransactionOK, WritesOK, ResetOps, CompleteOps, RevokingOps
  <2>5. ~AccountLocked /\ ~CredentialLocked
    <3>1. ~AccountLocked
      BY DEF ExecuteProvision
    <3>2. \A v \in Requests : RequestOK(request[v])
      BY DEF IndInv
    <3>3. ASSUME NEW v \in Requests, InTx(request[v]), request[v].op \in ResetOps PROVE FALSE
      BY <1>1, <2>3, <3>2, <3>3
         DEF RequestOK, TransactionOK, ReadsOK, InTx, Executing, AccountOK
    <3> QED
      BY <3>1, <3>3 DEF AccountLocked, CredentialLocked, InTransaction, InTx, ResetOps
  <2>6. \A v \in Requests \ {r} : ~Conflict(q, request[v])
    BY <2>1, <2>3, <2>5, NoConflict DEF InTx
  <2> QED
    BY <2>1, <2>2, <2>4, <2>6, CallStep DEF RequestOK
<1> QED
  BY <1>2, <1>3 DEF ExecuteProvision

LEMMA SignInInv ==
  ASSUME IndInv, NEW r \in Requests, request[r].phase = "executing", ExecuteSignIn(r)
  PROVE  IndInv'
<1>1. /\ request[r] \in Request /\ CompletesOK(request[r]) /\ request[r].op = "sign-in"
      /\ request[r].op \notin RequestOps \union CompleteOps /\ request[r].known = {}
  BY Facts DEF RequestOK, OperationOK, InTx, ExecuteSignIn, RequestOps, CompleteOps
<1>2. PICK s \in Sessions :
        /\ session[s].state = "NONE" /\ ~SessionLocked(s)
        /\ Goto(r, [request[r] EXCEPT !.phase = "committing", !.writes = {s}])
  BY DEF ExecuteSignIn
<1> DEFINE q == Enter(r, "committing", {s}, {})
<1>3. /\ q \in Request /\ q.op = "sign-in" /\ q.phase = "committing" /\ q.writes = {s}
      /\ q.challenge = request[r].challenge
      /\ OperationOK(q) /\ ReadsOK(q) /\ PresentsOK(q) /\ CompletesOK(q)
  BY <1>1, Entered
<1>4. Goto(r, q) /\ q.known = {}
  BY <1>1, <1>2 DEF Enter, Request
<1> HIDE DEF q
<1>5. session[s].version < MaxVersion
  BY <1>2, Facts, IdentityAssumption DEF SessionOK
<1>6. q.challenge = NoChallenge
  BY <1>1, <1>3 DEF CompletesOK
<1>7. TransactionOK(q) /\ WritesOK(q)
  BY <1>2, <1>3, <1>4, <1>5
     DEF TransactionOK, WritesOK, ResetOps, CompleteOps, RevokingOps, RequestOps
<1>8. \A v \in Requests \ {r} : ~Conflict(q, request[v])
  BY <1>2, <1>3, <1>6, NoConflict DEF InTx, AccountOps, CredentialOps, ResetOps
<1> QED
  BY <1>3, <1>4, <1>7, <1>8, CallStep DEF RequestOK

\* A sign-out that loses its update leaves a session with a newer secret.
LEMMA ReplaceSessionInv ==
  ASSUME IndInv, NEW r \in Requests, request[r].phase = "executing", ReplaceSession(r)
  PROVE  IndInv'
<1> DEFINE old == request[r]
           q == Enter(r, "committing", {old.session}, {})
<1>1. /\ old \in Request /\ CompletesOK(old) /\ PresentsOK(old)
      /\ old.op \in {"rotate", "sign-out"} /\ old.op \in SecretOps
      /\ old.op \notin RequestOps \union CompleteOps /\ old.known = {}
      /\ ~SessionLocked(old.session) /\ session[old.session].version < MaxVersion
  BY Facts DEF RequestOK, OperationOK, InTx, ReplaceSession, RequestOps, CompleteOps, SecretOps
<1>2. /\ [session |-> old.session, secret |-> old.secret] \in told
      /\ old.secret.version = old.version
  BY <1>1 DEF PresentsOK, Active, Answers
<1>3. old.session \in Sessions
  BY <1>2, Facts
<1>4. CASE VersionMatches(old)
  <2>1. /\ q \in Request /\ q.op = old.op /\ q.phase = "committing" /\ q.session = old.session
        /\ q.writes = {old.session} /\ q.version = old.version /\ q.challenge = old.challenge
        /\ OperationOK(q) /\ ReadsOK(q) /\ PresentsOK(q) /\ CompletesOK(q)
    BY <1>1, <1>3, Entered
  <2>2. Goto(r, q) /\ q.known = {}
    BY <1>1, <1>4 DEF ReplaceSession, Enter, Request
  <2> HIDE DEF q
  <2>3. q.challenge = NoChallenge
    BY <1>1, <2>1 DEF CompletesOK
  <2>4. TransactionOK(q) /\ WritesOK(q)
    BY <1>1, <1>4, <2>1, <2>2
       DEF TransactionOK, WritesOK, ResetOps, CompleteOps, RevokingOps, RequestOps, VersionMatches
  <2>5. \A v \in Requests \ {r} : ~Conflict(q, request[v])
    BY <1>1, <2>1, <2>3, NoConflict DEF InTx, AccountOps, CredentialOps, ResetOps
  <2> QED
    BY <2>1, <2>2, <2>4, <2>5, CallStep DEF RequestOK
<1>5. CASE ~VersionMatches(old)
  <2>1. PICK a \in {"refused", "done"} : Answer(r, a)
    BY <1>5 DEF ReplaceSession
  <2>2. LET row == session[old.session] IN row.state = "LIVE" => row.secret # old.secret
    BY <1>2, <1>3, <1>5, Facts DEF SessionOK, VersionMatches
  <2> QED
    BY <1>1, <2>1, <2>2, AnswerInv DEF Answers
<1> QED
  BY <1>4, <1>5

\* The statement that revokes the sessions has all of the live ones in its snapshot.
LEMMA RevokesInv ==
  ASSUME IndInv, NEW r \in Requests, request[r].phase = "executing",
         request[r].op \in RevokingOps, EndsSessions(request[r]), Revokes(r),
         LET old == request[r] IN
         /\ old.op = "set-status" => old.account = account /\ account.version > 0
         /\ old.op \in ResetOps => old.credentialVersion = credential.version
         /\ old.op \in CompleteOps => challenge[old.challenge].state = "ACTIVE"
         /\ old.op \in AccountOps => ~AccountLocked
         /\ old.op \in CredentialOps => ~CredentialLocked
         /\ old.challenge # NoChallenge => ~ChallengeLocked(old.challenge)
  PROVE  IndInv'
<1> DEFINE old == request[r]
           known == {s \in Sessions : session[s].state # "NONE"}
           q == Enter(r, "revoking", Snapshot(r), known)
<1>1. /\ old \in Request /\ Snapshot(r) \in SUBSET Sessions /\ known \in SUBSET Sessions
      /\ old.op \notin RequestOps \union {"provision", "complete-verification"}
  BY Facts DEF Snapshot, RevokingOps, ResetOps, RequestOps
<1>2. /\ q \in Request /\ q.op = old.op /\ q.phase = "revoking" /\ q.writes = Snapshot(r)
      /\ q.account = old.account /\ q.challenge = old.challenge
      /\ q.known = known /\ q.status = old.status
      /\ q.credentialVersion = old.credentialVersion
      /\ OperationOK(q) /\ ReadsOK(q) /\ PresentsOK(q) /\ CompletesOK(q)
  BY <1>1, Entered
<1>3. Goto(r, q)
  BY <1>1 DEF Revokes, Transacts, EndsSessions, Enter, Request, Phases
<1> HIDE DEF q
<1>4. TransactionOK(q) /\ WritesOK(q)
  BY <1>1, <1>2 DEF TransactionOK, WritesOK, Snapshot, EndsSessions
<1>5. \A v \in Requests \ {r} : ~Conflict(q, request[v])
  BY <1>1, <1>2, NoConflict DEF InTx
<1> QED
  BY <1>2, <1>3, <1>4, <1>5, CallStep DEF RequestOK

LEMMA SignOutAllInv ==
  ASSUME IndInv, NEW r \in Requests, request[r].phase = "executing", ExecuteSignOutAll(r)
  PROVE  IndInv'
<1>1. CompletesOK(request[r]) /\ request[r].op = "sign-out-all"
  BY Facts DEF RequestOK, ExecuteSignOutAll
<1>2. request[r].challenge = NoChallenge
  BY <1>1 DEF CompletesOK, CompleteOps, RequestOps
<1> QED
  BY <1>1, <1>2, RevokesInv
     DEF ExecuteSignOutAll, EndsSessions, RevokingOps, ResetOps, CompleteOps, AccountOps,
         CredentialOps

LEMMA ChangePasswordInv ==
  ASSUME IndInv, NEW r \in Requests, request[r].phase = "executing", ExecuteChangePassword(r)
  PROVE  IndInv'
<1>1. CompletesOK(request[r]) /\ request[r].op = "change-password"
  BY Facts DEF RequestOK, ExecuteChangePassword
<1>2. request[r].challenge = NoChallenge
  BY <1>1 DEF CompletesOK, CompleteOps, RequestOps
<1>3. CASE Fails(r)
  BY <1>1, <1>3, AnswerInv DEF Fails, Answers
<1>4. CASE CredentialMatches(request[r]) /\ Revokes(r)
  BY <1>1, <1>2, <1>4, RevokesInv
     DEF ExecuteChangePassword, EndsSessions, RevokingOps, ResetOps, CompleteOps, AccountOps,
         CredentialOps, CredentialMatches
<1> QED
  BY <1>3, <1>4 DEF ExecuteChangePassword

LEMMA CompleteResetInv ==
  ASSUME IndInv, NEW r \in Requests, request[r].phase = "executing", ExecuteCompleteReset(r)
  PROVE  IndInv'
<1>1. request[r].op = "complete-reset"
  BY DEF ExecuteCompleteReset
<1>2. CASE Refuses(r) \/ Fails(r)
  BY <1>1, <1>2, AnswerInv DEF Refuses, Fails, Answers
<1>3. CASE Consumable(request[r]) /\ CredentialMatches(request[r]) /\ Revokes(r)
  BY <1>1, <1>3, RevokesInv
     DEF ExecuteCompleteReset, EndsSessions, RevokingOps, ResetOps, CompleteOps, AccountOps,
         CredentialOps, CredentialMatches, Consumable
<1> QED
  BY <1>2, <1>3 DEF ExecuteCompleteReset

LEMMA RequestChallengeInv ==
  ASSUME IndInv, NEW r \in Requests, request[r].phase = "executing", ExecuteRequestChallenge(r)
  PROVE  IndInv'
<1> DEFINE old == request[r]
<1>1. /\ old \in Request /\ OperationOK(old) /\ ReadsOK(old) /\ PresentsOK(old)
      /\ CompletesOK(old) /\ old.op \in RequestOps /\ old.writes = {} /\ old.known = {}
      /\ old.op \notin SecretOps \union CompleteOps \union AccountOps \union CredentialOps
                       \union RevokingOps \union {"sign-in"}
  BY Facts DEF RequestOK, OperationOK, InTx, ExecuteRequestChallenge, RequestOps, SecretOps,
               CompleteOps, AccountOps, CredentialOps, ResetOps, RevokingOps
<1>2. PICK c \in Challenges :
        /\ challenge[c].state = "NONE" /\ ~ChallengeLocked(c)
        /\ Goto(r, [old EXCEPT !.phase = "committing", !.challenge = c])
  BY DEF ExecuteRequestChallenge
<1> DEFINE q == [old EXCEPT !.phase = "committing", !.challenge = c]
<1>3. /\ q \in Request /\ q.op = old.op /\ q.phase = "committing" /\ q.writes = {}
      /\ q.challenge = c /\ q.account = old.account /\ q.known = {}
  BY <1>1 DEF Request, Phases
<1>4. Goto(r, q)
  BY <1>2
<1> HIDE DEF q
<1>5. OperationOK(q)
  BY <1>1, <1>3 DEF OperationOK, InTx, RequestOps
<1>6. ReadsOK(q)
  BY <1>1, <1>3 DEF ReadsOK, Executing, RequestOps, ResetOps
<1>7. PresentsOK(q)
  BY <1>1, <1>3 DEF PresentsOK
<1>8. CompletesOK(q)
  BY <1>1, <1>2, <1>3 DEF CompletesOK
<1>9. TransactionOK(q) /\ WritesOK(q)
  BY <1>1, <1>3 DEF TransactionOK, WritesOK, RequestOps, ResetOps, CompleteOps, SecretOps,
                    RevokingOps
<1>10. \A v \in Requests \ {r} : ~Conflict(q, request[v])
  BY <1>1, <1>2, <1>3, NoConflict DEF InTx
<1> QED
  BY <1>3, <1>4, <1>5, <1>6, <1>7, <1>8, <1>9, <1>10, CallStep DEF RequestOK

\* The account was the one it read, and so it is still not verified.
LEMMA CompleteVerificationInv ==
  ASSUME IndInv, NEW r \in Requests, request[r].phase = "executing",
         ExecuteCompleteVerification(r)
  PROVE  IndInv'
<1> DEFINE old == request[r]
           q == Enter(r, "committing", {}, {})
<1>1. /\ old \in Request /\ OperationOK(old) /\ ReadsOK(old) /\ CompletesOK(old)
      /\ old.op = "complete-verification" /\ old.writes = {} /\ old.known = {}
      /\ old.op \notin RequestOps
  BY Facts DEF RequestOK, OperationOK, InTx, ExecuteCompleteVerification, RequestOps
<1>2. CASE Refuses(r) \/ Fails(r)
  BY <1>1, <1>2, AnswerInv DEF Refuses, Fails, Answers
<1>3. CASE Consumable(old) /\ AccountMatches(old.account.version) /\ Commits(r)
  <2>1. /\ q \in Request /\ q.op = "complete-verification" /\ q.phase = "committing"
        /\ q.writes = {} /\ q.challenge = old.challenge /\ q.account = old.account
        /\ OperationOK(q) /\ ReadsOK(q) /\ PresentsOK(q) /\ CompletesOK(q)
    BY <1>1, Entered
  <2>2. Goto(r, q) /\ q.known = {}
    <3> DEFINE p == [request[r] EXCEPT !.phase = "committing"]
    <3>1. p.op = request[r].op /\ p.status = request[r].status /\ p = q /\ q.known = {}
      BY <1>1 DEF Request, Enter
    <3>2. Goto(r, p)
      BY <1>1, <1>3, <3>1 DEF Commits, Transacts, EndsSessions
    <3> QED
      BY <3>1, <3>2
  <2> HIDE DEF q
  <2>3. q.account = account
    BY <1>1, <1>3, <2>1 DEF ReadsOK, AccountMatches
  <2>4. account.version > 0 /\ challenge[q.challenge].state = "ACTIVE"
    <3>1. /\ q.challenge \in Challenges /\ challenge[q.challenge].state = "ACTIVE"
          /\ challenge[q.challenge].kind = "EMAIL_VERIFICATION"
      BY <1>1, <1>3, <2>1 DEF CompletesOK, Consumable, CompleteOps, Active, Answers
    <3> QED
      BY <3>1 DEF IndInv, ChallengeOK
  <2>5. TransactionOK(q) /\ WritesOK(q)
    BY <2>1, <2>2, <2>3, <2>4
       DEF TransactionOK, WritesOK, ResetOps, CompleteOps, RevokingOps
  <2>6. \A v \in Requests \ {r} : ~Conflict(q, request[v])
    BY <2>1, NoConflict DEF InTx, ExecuteCompleteVerification, CredentialOps, ResetOps
  <2> QED
    BY <2>1, <2>2, <2>5, <2>6, CallStep DEF RequestOK
<1> QED
  BY <1>2, <1>3 DEF ExecuteCompleteVerification

LEMMA SetAccountStatusInv ==
  ASSUME IndInv, NEW r \in Requests, request[r].phase = "executing", ExecuteSetAccountStatus(r)
  PROVE  IndInv'
<1> DEFINE old == request[r]
           q == Enter(r, "committing", {}, {})
<1>1. /\ old \in Request /\ OperationOK(old) /\ ReadsOK(old) /\ CompletesOK(old)
      /\ old.op = "set-status" /\ old.writes = {} /\ old.known = {} /\ ~AccountLocked
      /\ old.op \notin RequestOps \union CompleteOps \union ResetOps \union CredentialOps
  BY Facts DEF RequestOK, OperationOK, InTx, ExecuteSetAccountStatus, RequestOps, CompleteOps,
               ResetOps, CredentialOps
<1>2. old.challenge = NoChallenge
  BY <1>1 DEF CompletesOK
<1>3. CASE Refuses(r) \/ Fails(r)
  BY <1>1, <1>3, AnswerInv DEF Refuses, Fails, Answers
<1>4. AccountMatches(old.version) => old.account = account /\ account.version > 0
  BY <1>1 DEF ReadsOK, AccountMatches, Active, Answers, Executing
<1>5. CASE AccountMatches(old.version) /\ old.status # "ACTIVE" /\ Revokes(r)
  BY <1>1, <1>2, <1>4, <1>5, RevokesInv DEF RevokingOps, EndsSessions
<1>6. CASE AccountMatches(old.version) /\ old.status = "ACTIVE" /\ Commits(r)
  <2>1. /\ q \in Request /\ q.op = "set-status" /\ q.phase = "committing"
        /\ q.writes = {} /\ q.challenge = old.challenge /\ q.account = old.account
        /\ q.status = old.status
        /\ OperationOK(q) /\ ReadsOK(q) /\ PresentsOK(q) /\ CompletesOK(q)
    BY <1>1, Entered
  <2>2. Goto(r, q) /\ q.known = {}
    <3> DEFINE p == [request[r] EXCEPT !.phase = "committing"]
    <3>1. p.op = request[r].op /\ p.status = request[r].status /\ p = q /\ q.known = {}
      BY <1>1 DEF Request, Enter
    <3>2. Goto(r, p)
      BY <1>1, <1>6, <3>1 DEF Commits, Transacts, EndsSessions
    <3> QED
      BY <3>1, <3>2
  <2> HIDE DEF q
  <2>3. TransactionOK(q) /\ WritesOK(q)
    BY <1>1, <1>4, <1>6, <2>1, <2>2 DEF TransactionOK, WritesOK
  <2>4. \A v \in Requests \ {r} : ~Conflict(q, request[v])
    BY <1>1, <1>2, <2>1, NoConflict DEF InTx
  <2> QED
    BY <2>1, <2>2, <2>3, <2>4, CallStep DEF RequestOK
<1> QED
  BY <1>3, <1>5, <1>6 DEF ExecuteSetAccountStatus

LEMMA ExecuteInv == ASSUME IndInv, NEW r \in Requests, Execute(r) PROVE IndInv'
BY ProvisionInv, SignInInv, ReplaceSessionInv, SignOutAllInv, ChangePasswordInv,
   CompleteResetInv, RequestChallengeInv, CompleteVerificationInv, SetAccountStatusInv
   DEF Execute

\* Of the sessions in the snapshot those still live are locked: no live one is missed.
LEMMA RevokeInv == ASSUME IndInv, NEW r \in Requests, Revoke(r) PROVE IndInv'
<1> DEFINE old == request[r]
           targets == {s \in old.writes : session[s].state = "LIVE"}
           q == Enter(r, "committing", targets, old.known)
<1>1. /\ old \in Request /\ OperationOK(old) /\ TransactionOK(old)
      /\ old.phase = "revoking" /\ old.op \in RevokingOps /\ InTx(old)
      /\ old.op \notin RequestOps \union {"sign-in", "rotate", "sign-out", "provision",
                                          "complete-verification"}
      /\ targets \in SUBSET Sessions /\ old.known \in SUBSET Sessions
      /\ \A s \in old.writes : ~SessionLocked(s) /\ session[s].version < MaxVersion
  BY Facts, RequestFields
     DEF RequestOK, OperationOK, Revoke, InTx, RequestOps, RevokingOps, ResetOps
<1>2. CASE Fails(r)
  BY <1>1, <1>2, AnswerInv DEF Fails, Answers
<1>3. CASE Goto(r, [old EXCEPT !.phase = "committing", !.writes = targets])
  <2>1. /\ q \in Request /\ q.op = old.op /\ q.phase = "committing" /\ q.writes = targets
        /\ q.known = old.known /\ q.challenge = old.challenge
        /\ q.account = old.account /\ q.status = old.status
        /\ q.credentialVersion = old.credentialVersion
        /\ OperationOK(q) /\ ReadsOK(q) /\ PresentsOK(q) /\ CompletesOK(q)
    BY <1>1, Entered
  <2>2. Goto(r, q)
    BY <1>1, <1>3 DEF Enter, Request
  <2>3. targets \subseteq old.writes /\ \A s \in targets : session[s].state = "LIVE"
    OBVIOUS
  <2> HIDE DEF q
  <2>4. TransactionOK(q)
    BY <1>1, <2>1 DEF TransactionOK, InTx, EndsSessions
  <2> HIDE DEF targets
  <2>5. WritesOK(q)
    BY <1>1, <2>1, <2>3 DEF WritesOK
  <2>6. ASSUME NEW v \in Requests \ {r}, Conflict(q, request[v]) PROVE FALSE
    <3>1. ~Conflict(old, request[v])
      BY DEF IndInv
    <3>2. PICK s \in targets : request[v].phase = "committing" /\ s \in request[v].writes
      BY <1>1, <2>1, <2>6, <3>1 DEF Conflict, InTx
    <3> QED
      BY <1>1, <2>3, <3>2 DEF SessionLocked
  <2> QED
    BY <2>1, <2>2, <2>4, <2>5, <2>6, CallStep DEF RequestOK
<1> QED
  BY <1>2, <1>3 DEF Revoke

-----------------------------------------------------------------------------
(* COMMIT.                                                                 *)

\* The call that commits, and the rows it goes by.
LEMMA Committer ==
  ASSUME IndInv, NEW r \in Requests, request[r].phase = "committing"
  PROVE  /\ request[r] \in Request /\ RequestOK(request[r]) /\ InTx(request[r])
         /\ Active(request[r])
         /\ request[r].op \in AllOps \ {"authenticate"}
         /\ request[r].writes \in SUBSET Sessions
BY Facts, RequestFields DEF RequestOK, OperationOK, InTx, Active, Answers

\* Each session it writes gets the next version: opened, rotated or revoked.
LEMMA CommitSessions ==
  ASSUME IndInv, NEW r \in Requests, NEW heard \in BOOLEAN, Commit(r, heard),
         NEW s \in request[r].writes
  PROVE  /\ s \in Sessions /\ session'[s] \in Session /\ SessionOK(session'[s])
         /\ session'[s].version = session[s].version + 1
         /\ request[r].op \in {"sign-in", "rotate"} =>
              /\ session'[s].state = "LIVE"
              /\ session'[s].secret = [version |-> session'[s].version, by |-> r]
         /\ request[r].op = "sign-in" => session[s].state = "NONE"
         /\ request[r].op = "rotate" =>
              s = request[r].session /\ session[s].state = "LIVE"
                /\ session[s].secret = request[r].secret
         /\ request[r].op \notin {"sign-in", "rotate"} =>
              /\ session[s].state = "LIVE" /\ session'[s].state = "REVOKED"
              /\ session'[s].secret = session[s].secret
<1> DEFINE q == request[r]
           row == session[s]
           n == session'[s]
<1>1. /\ q \in Request /\ q.phase = "committing" /\ PresentsOK(q) /\ WritesOK(q)
      /\ Active(q) /\ q.op \in AllOps \ {"authenticate"} /\ s \in Sessions
  BY Committer DEF Commit, RequestOK
<1>2. row \in Session /\ SessionOK(row) /\ row.version < MaxVersion /\ row.version \in Nat
  BY <1>1, Facts DEF WritesOK, Session
<1>3. n = NewSessionRow(r, s)
  BY <1>1 DEF Commit
<1>4. q.now \in Nat /\ SessionTtl \in Nat /\ MaxVersion \in Nat /\ MaxVersion > 0
  BY <1>1, IdentityAssumption, RequestFields
<1> HIDE DEF n
<1>5. CASE q.op = "sign-in"
  <2>1. n = [state |-> "LIVE", version |-> 1, secret |-> [version |-> 1, by |-> r],
             createdAt |-> q.now, expiresAt |-> q.now + SessionTtl]
    BY <1>3, <1>5 DEF NewSessionRow, NewSession
  <2>2. row.state = "NONE" /\ row.version = 0
    BY <1>1, <1>2, <1>5 DEF WritesOK, SessionOK
  <2>3. n \in Session
    BY <1>4, <2>1 DEF Session, Secret
  <2>4. SessionOK(n)
    BY <1>4, <2>1 DEF SessionOK
  <2> QED
    BY <1>1, <1>5, <2>1, <2>2, <2>3, <2>4 DEF n
<1>6. CASE q.op = "rotate"
  <2>1. /\ s = q.session /\ row.version = q.version
        /\ row.state = "LIVE" /\ row.secret = q.secret
    BY <1>1, <1>6 DEF WritesOK, PresentsOK, SecretOps
  <2> DEFINE m == row.version + 1
             x == [version |-> m, by |-> r]
  <2>2. n = [row EXCEPT !.state = "LIVE", !.version = m, !.secret = x] /\ m \in Nat
    BY <1>2, <1>3, <1>6, <2>1 DEF NewSessionRow, Rotated
  <2>3. /\ n \in Session /\ n.state = "LIVE" /\ n.version = row.version + 1
        /\ n.secret = [version |-> n.version, by |-> r]
    <3> HIDE DEF m
    <3>1. x \in Secret
      BY <2>2 DEF Secret
    <3> HIDE DEF x
    <3>2. n \in Session /\ n.state = "LIVE" /\ n.version = m /\ n.secret = x
      BY <1>2, <2>2, <3>1 DEF Session
    <3> QED
      BY <3>2 DEF m, x
  <2>4. SessionOK(n)
    BY <1>2, <1>4, <2>3 DEF SessionOK
  <2> QED
    BY <1>1, <1>6, <2>1, <2>3, <2>4 DEF n
<1>7. CASE q.op \notin {"sign-in", "rotate"}
  <2>1. row.state = "LIVE"
    <3>1. CASE q.op = "sign-out"
      BY <1>1, <3>1 DEF WritesOK, PresentsOK, SecretOps
    <3>2. CASE q.op # "sign-out"
      <4>1. q.op \in RevokingOps
        BY <1>1, <1>7, <3>2 DEF WritesOK, AllOps, RequestOps, RevokingOps, ResetOps
      <4> QED
        BY <1>1, <4>1 DEF WritesOK
    <3> QED
      BY <3>1, <3>2
  <2> DEFINE m == row.version + 1
  <2>2. n = [row EXCEPT !.state = "REVOKED", !.version = m] /\ m \in Nat
    BY <1>2, <1>3, <1>7 DEF NewSessionRow, Revoked
  <2>3. /\ n \in Session /\ n.state = "REVOKED" /\ n.version = row.version + 1
        /\ n.secret = row.secret
    <3> HIDE DEF m
    <3>1. n \in Session /\ n.state = "REVOKED" /\ n.version = m /\ n.secret = row.secret
      BY <1>2, <2>2 DEF Session
    <3> QED
      BY <3>1 DEF m
  <2>4. SessionOK(n)
    BY <1>2, <1>4, <2>1, <2>3 DEF SessionOK
  <2> QED
    BY <1>1, <1>7, <2>1, <2>3, <2>4 DEF n
<1> QED
  BY <1>5, <1>6, <1>7

LEMMA CommitVersion ==
  ASSUME IndInv, NEW r \in Requests, NEW heard \in BOOLEAN, Commit(r, heard),
         NEW s \in request[r].writes
  PROVE  session'[s].version = session[s].version + 1
BY CommitSessions

LEMMA CommitIssues ==
  ASSUME IndInv, NEW r \in Requests, NEW heard \in BOOLEAN, Commit(r, heard),
         NEW s \in request[r].writes, request[r].op \in {"sign-in", "rotate"}
  PROVE  /\ session'[s].state = "LIVE"
         /\ session'[s].secret = [version |-> session'[s].version, by |-> r]
         /\ request[r].op = "sign-in" => session[s].state = "NONE"
         /\ request[r].op = "rotate" =>
              s = request[r].session /\ session[s].state = "LIVE"
                /\ session[s].secret = request[r].secret
BY CommitSessions

LEMMA CommitOpens ==
  ASSUME IndInv, NEW r \in Requests, NEW heard \in BOOLEAN, Commit(r, heard),
         NEW s \in request[r].writes, request[r].op = "sign-in"
  PROVE  session[s].state = "NONE" /\ session'[s].state = "LIVE"
<1>1. session[s].state = "NONE"
  BY CommitSessions
<1>2. session'[s].state = "LIVE"
  BY DEF Commit, NewSessionRow, NewSession, IndInv, TypeOK, Request
<1> QED
  BY <1>1, <1>2

LEMMA CommitRevokes ==
  ASSUME IndInv, NEW r \in Requests, NEW heard \in BOOLEAN, Commit(r, heard),
         NEW s \in request[r].writes, request[r].op \notin {"sign-in", "rotate"}
  PROVE  /\ session[s].state = "LIVE" /\ session'[s].state = "REVOKED"
         /\ session'[s].secret = session[s].secret
BY CommitSessions

\* A revoked session stays revoked, and no session is forgotten.
LEMMA CommitKeeps ==
  ASSUME IndInv, NEW r \in Requests, NEW heard \in BOOLEAN, Commit(r, heard),
         NEW s \in Sessions
  PROVE  /\ session[s].state = "REVOKED" => session'[s].state = "REVOKED"
         /\ session[s].state # "NONE" => session'[s].state # "NONE"
<1>1. CASE s \notin request[r].writes
  <2>1. session'[s] = session[s]
    BY <1>1 DEF Commit
  <2> QED
    BY <2>1
<1>2. CASE s \in request[r].writes /\ request[r].op \in {"sign-in", "rotate"}
  <2>1. session'[s].state = "LIVE"
    BY <1>2, CommitIssues
  <2>2. session[s].state # "REVOKED"
    BY <1>2, CommitIssues
  <2> QED
    BY <2>1, <2>2
<1>3. CASE s \in request[r].writes /\ request[r].op \notin {"sign-in", "rotate"}
  BY <1>3, CommitRevokes
<1> QED
  BY <1>1, <1>2, <1>3

LEMMA CommitOtherSessions ==
  ASSUME IndInv, NEW r \in Requests, NEW heard \in BOOLEAN, Commit(r, heard)
  PROVE  /\ session' \in [Sessions -> Session]
         /\ \A s \in Sessions \ request[r].writes : session'[s] = session[s]
         /\ \A s \in Sessions : SessionOK(session'[s])
         /\ \A s \in Sessions : session[s].version <= session'[s].version
<1>1. \A s \in Sessions \ request[r].writes : session'[s] = session[s]
  BY DEF Commit
<1>2. ASSUME NEW s \in Sessions
      PROVE  session'[s] \in Session /\ SessionOK(session'[s])
  <2>1. CASE s \in request[r].writes
    <3>1. session'[s] \in Session
      BY <2>1, CommitSessions
    <3>2. SessionOK(session'[s])
      BY <2>1, CommitSessions
    <3> QED
      BY <3>1, <3>2
  <2>2. CASE s \notin request[r].writes
    BY <1>1, <2>2, Facts
  <2> QED
    BY <2>1, <2>2
<1>3. session' = [s \in Sessions |-> session'[s]]
  BY DEF Commit
<1>4. session' \in [Sessions -> Session]
  BY <1>2, <1>3
<1>5. ASSUME NEW s \in Sessions PROVE session[s].version <= session'[s].version
  <2>1. session[s].version \in Nat
    BY Facts DEF Session
  <2>2. CASE s \in request[r].writes
    <3>1. session'[s].version = session[s].version + 1
      BY <2>2, CommitSessions
    <3> QED
      BY <2>1, <3>1
  <2>3. CASE s \notin request[r].writes
    BY <1>1, <2>1, <2>3
  <2> QED
    BY <2>2, <2>3
<1> QED
  BY <1>1, <1>2, <1>4, <1>5

\* The account goes on to its next version, rewritten from the row that is there.
LEMMA CommitAccount ==
  ASSUME IndInv, NEW r \in Requests, NEW heard \in BOOLEAN, Commit(r, heard)
  PROVE  /\ account' \in Account /\ credential' \in Credential /\ AccountOK'
         /\ request[r].op \notin AccountOps => account' = account
         /\ request[r].op \in AccountOps => account'.version = account.version + 1
         /\ request[r].op = "provision" => account.version = 0 /\ account'.status = "ACTIVE"
         /\ request[r].op = "complete-verification" =>
              account'.verified = "yes" /\ account'.status = account.status
         /\ request[r].op = "set-status" =>
              account'.verified = account.verified /\ account'.status = request[r].status
         /\ request[r].op \notin CredentialOps => credential' = credential
<1> DEFINE q == request[r]
<1>1. /\ q \in Request /\ q.phase = "committing" /\ ReadsOK(q) /\ TransactionOK(q)
      /\ InTx(q) /\ Active(q) /\ q.op \in AllOps /\ q.credentialVersion \in Nat
      /\ q.newPassword \in Passwords \union {NoPassword} /\ q.status \in Statuses \union {"NONE"}
  BY Committer, RequestFields DEF Commit, RequestOK
<1>2. /\ account' = NewAccount(q) /\ credential' = NewCredential(q)
      /\ account \in Account /\ credential \in Credential /\ AccountOK
      /\ account.version \in Nat /\ credential.version \in Nat
  BY Facts DEF Commit, IndInv, Account, Credential
<1>3. /\ credential' \in Credential
      /\ q.op \in CredentialOps => credential'.version > 0
      /\ q.op \notin CredentialOps => credential' = credential
  BY <1>1, <1>2 DEF NewCredential, CredentialOps, ResetOps, Credential
<1>4. CASE q.op = "provision"
  <2>1. account.version = 0
    BY <1>1, <1>4 DEF TransactionOK
  <2>2. /\ account' \in Account /\ account'.version = 1 /\ account'.status = "ACTIVE"
    BY <1>2, <1>4, IdentityAssumption DEF NewAccount, Account
  <2>3. AccountOK'
    BY <1>3, <1>4, <2>2 DEF AccountOK, CredentialOps
  <2> QED
    BY <1>3, <1>4, <2>1, <2>2, <2>3 DEF AccountOps
<1>5. CASE q.op = "complete-verification"
  <2>1. q.account = account /\ account.version > 0
    BY <1>1, <1>5 DEF TransactionOK
  <2> DEFINE m == account.version + 1
  <2>2. account' = [account EXCEPT !.verified = "yes", !.version = m] /\ m \in Nat
    BY <1>2, <1>5, <2>1 DEF NewAccount
  <2>3. /\ account' \in Account /\ account'.version = account.version + 1
        /\ account'.status = account.status /\ account'.verified = "yes"
    <3> HIDE DEF m
    <3>1. /\ account' \in Account /\ account'.version = m
          /\ account'.status = account.status /\ account'.verified = "yes"
      BY <1>2, <2>2 DEF Account
    <3> QED
      BY <3>1 DEF m
  <2>4. credential' = credential
    BY <1>3, <1>5 DEF CredentialOps, ResetOps
  <2>5. AccountOK'
    BY <1>2, <2>1, <2>3, <2>4 DEF AccountOK
  <2> QED
    BY <1>3, <1>5, <2>3, <2>5 DEF AccountOps
<1>6. CASE q.op = "set-status"
  <2>1. q.account = account /\ account.version > 0 /\ q.status # "NONE"
    BY <1>1, <1>6 DEF TransactionOK, ReadsOK
  <2> DEFINE m == account.version + 1
  <2>2. account' = [account EXCEPT !.status = q.status, !.version = m] /\ m \in Nat
    BY <1>2, <1>6, <2>1 DEF NewAccount
  <2>3. /\ account' \in Account /\ account'.version = account.version + 1
        /\ account'.status = q.status /\ account'.verified = account.verified
    <3> HIDE DEF m
    <3>1. /\ account' \in Account /\ account'.version = m
          /\ account'.status = q.status /\ account'.verified = account.verified
      BY <1>1, <1>2, <2>2 DEF Account
    <3> QED
      BY <3>1 DEF m
  <2>4. credential' = credential
    BY <1>3, <1>6 DEF CredentialOps, ResetOps
  <2>5. AccountOK'
    BY <1>2, <2>1, <2>3, <2>4 DEF AccountOK
  <2> QED
    BY <1>3, <1>6, <2>3, <2>5 DEF AccountOps
<1>7. CASE q.op \notin AccountOps
  <2>1. account' = account
    BY <1>2, <1>7 DEF NewAccount, AccountOps
  <2>2. AccountOK'
    <3>1. CASE q.op \in CredentialOps
      <4>1. q.op \in ResetOps
        BY <1>7, <3>1 DEF CredentialOps, AccountOps
      <4>2. credential.version > 0
        BY <1>1, <4>1 DEF TransactionOK, ReadsOK, Executing
      <4> QED
        BY <1>2, <1>3, <2>1, <3>1, <4>2 DEF AccountOK, Credential
    <3>2. CASE q.op \notin CredentialOps
      BY <1>2, <1>3, <2>1, <3>2 DEF AccountOK
    <3> QED
      BY <3>1, <3>2
  <2> QED
    BY <1>2, <1>3, <1>7, <2>1, <2>2 DEF AccountOps
<1> QED
  BY <1>4, <1>5, <1>6, <1>7 DEF AccountOps

\* A challenge is created once and consumed once; a consumed verification has its effect.
LEMMA CommitChallenges ==
  ASSUME IndInv, NEW r \in Requests, NEW heard \in BOOLEAN, Commit(r, heard)
  PROVE  /\ challenge' \in [Challenges -> Challenge]
         /\ \A c \in Challenges : ChallengeOK(challenge[c])'
         /\ \A c \in Challenges : c # request[r].challenge => challenge'[c] = challenge[c]
         /\ \A c \in Challenges : challenge[c].state # "NONE" =>
              challenge'[c].state # "NONE" /\ challenge'[c].kind = challenge[c].kind
         /\ request[r].op \in CompleteOps =>
              /\ challenge[request[r].challenge].state = "ACTIVE"
              /\ challenge'[request[r].challenge].state = "CONSUMED"
<1> DEFINE q == request[r]
           k == q.challenge
<1>1. /\ q \in Request /\ q.phase = "committing" /\ ReadsOK(q) /\ TransactionOK(q)
      /\ InTx(q) /\ Active(q) /\ CompletesOK(q) /\ q.now \in Nat /\ ChallengeTtl \in Nat
      /\ NoChallenge \notin Challenges
  BY Committer, RequestFields, IdentityAssumption DEF Commit, RequestOK
<1>2. /\ challenge \in [Challenges -> Challenge]
      /\ challenge' = IF k = NoChallenge THEN challenge
                      ELSE [challenge EXCEPT ![k] = NewChallenge(q)]
      /\ \A c \in Challenges : ChallengeOK(challenge[c])
      /\ account \in Account /\ account.version \in Nat
  BY Facts DEF Commit, IndInv, TypeOK, Account
<1>3. /\ account.version > 0 => account'.version > 0
      /\ account.version > 0 /\ account.verified = "yes" => account'.verified = "yes"
      /\ q.op = "complete-verification" => account'.verified = "yes"
  BY <1>1, <1>2, CommitAccount DEF AccountOps
<1>4. CASE q.op \in RequestOps
  <2> DEFINE n == NewChallenge(q)
  <2>1. k \in Challenges /\ challenge[k].state = "NONE"
    BY <1>1, <1>4 DEF CompletesOK
  <2>2. /\ n \in Challenge /\ n.state = "ACTIVE"
        /\ n.kind = "EMAIL_VERIFICATION" => account.version > 0
    BY <1>1, <1>4 DEF NewChallenge, RequestOps, Challenge, ReadsOK, Executing
  <2> HIDE DEF n
  <2>3. challenge' = [challenge EXCEPT ![k] = n]
    BY <1>1, <1>2, <2>1 DEF n
  <2>4. challenge' \in [Challenges -> Challenge]
    BY <1>2, <2>2, <2>3
  <2>5. \A c \in Challenges : ChallengeOK(challenge[c])'
    BY <1>2, <1>3, <2>1, <2>2, <2>3 DEF ChallengeOK
  <2> QED
    BY <1>2, <1>4, <2>1, <2>3, <2>4, <2>5 DEF RequestOps, CompleteOps
<1>5. CASE q.op \in CompleteOps
  <2> DEFINE n == [challenge[k] EXCEPT !.state = "CONSUMED"]
  <2>1. /\ k \in Challenges /\ challenge[k].state = "ACTIVE"
        /\ q.op = "complete-reset" => challenge[k].kind = "PASSWORD_RESET"
    BY <1>1, <1>5 DEF CompletesOK, TransactionOK
  <2>2. NewChallenge(q) = n
    BY <1>5 DEF NewChallenge, CompleteOps
  <2>3. n \in Challenge /\ n.state = "CONSUMED" /\ n.kind = challenge[k].kind
    BY <1>2, <2>1 DEF Challenge
  <2> HIDE DEF n
  <2>4. challenge' = [challenge EXCEPT ![k] = n]
    BY <1>1, <1>2, <2>1, <2>2
  <2>5. challenge' \in [Challenges -> Challenge]
    BY <1>2, <2>3, <2>4
  <2>6. ASSUME NEW c \in Challenges PROVE ChallengeOK(challenge[c])'
    <3>1. CASE c # k
      BY <1>2, <1>3, <2>4, <3>1 DEF ChallengeOK
    <3>2. CASE c = k
      BY <1>2, <1>3, <1>5, <2>1, <2>3, <2>4, <3>2 DEF ChallengeOK, CompleteOps
    <3> QED
      BY <3>1, <3>2
  <2> QED
    BY <1>2, <1>5, <2>1, <2>3, <2>4, <2>5, <2>6
<1>6. CASE q.op \notin RequestOps \union CompleteOps
  <2>1. challenge' = challenge
    BY <1>1, <1>2, <1>6 DEF CompletesOK
  <2>2. \A c \in Challenges : ChallengeOK(challenge[c])'
    BY <1>2, <1>3, <2>1 DEF ChallengeOK
  <2> QED
    BY <1>2, <1>6, <2>1, <2>2
<1> QED
  BY <1>4, <1>5, <1>6

\* A caller is given a secret nobody was given before.
LEMMA CommitTold ==
  ASSUME IndInv, NEW r \in Requests, NEW heard \in BOOLEAN, Commit(r, heard)
  PROVE  /\ told \subseteq told' /\ told' \subseteq [session : Sessions, secret : Secret]
         /\ ToldOK' /\ RotationIsExclusive'
<1> DEFINE q == request[r]
           new == {[session |-> s, secret |-> session'[s].secret] : s \in q.writes}
<1>1. /\ ToldOK /\ RotationIsExclusive /\ told \subseteq [session : Sessions, secret : Secret]
      /\ q.writes \in SUBSET Sessions
  BY Facts, RequestFields DEF IndInv
<1>2. /\ told \subseteq told' /\ told' \subseteq told \union new
      /\ \A t \in told' \ told : q.op \in {"sign-in", "rotate"}
  BY DEF Commit
<1>3. ASSUME NEW s \in Sessions
      PROVE  /\ session'[s] \in Session /\ session'[s].secret \in Secret
             /\ session[s].secret.version \in Nat /\ session[s].version \in Nat
             /\ session'[s].secret.version \in Nat
  BY CommitOtherSessions, Facts DEF Session, Secret
<1>4. ASSUME NEW t \in told
      PROVE  /\ t.session \in Sessions /\ t.secret.version \in Nat
             /\ session'[t.session].state # "NONE"
             /\ t.secret.version <= session'[t.session].secret.version
             /\ t.secret.version = session'[t.session].secret.version =>
                  t.secret = session'[t.session].secret
             /\ t.session \in q.writes /\ q.op \in {"sign-in", "rotate"} =>
                  t.secret.version < session'[t.session].secret.version
  <2> DEFINE s == t.session
  <2>1. /\ s \in Sessions /\ t.secret \in Secret /\ session[s].state # "NONE"
        /\ t.secret.version <= session[s].secret.version
        /\ t.secret.version = session[s].secret.version => t.secret = session[s].secret
    BY <1>1 DEF ToldOK
  <2>2. t.secret.version \in Nat
    BY <2>1 DEF Secret
  <2>3. CASE s \notin q.writes
    <3>1. session'[s] = session[s]
      BY <2>1, <2>3, CommitOtherSessions
    <3> QED
      BY <2>1, <2>2, <2>3, <3>1
  <2>4. CASE s \in q.writes /\ q.op \in {"sign-in", "rotate"}
    <3>1. /\ session'[s].state = "LIVE" /\ session'[s].version = session[s].version + 1
          /\ session'[s].secret = [version |-> session'[s].version, by |-> r]
      BY <2>4, CommitSessions
    <3>2. session[s].state = "LIVE"
      BY <2>1, <2>4, CommitSessions
    <3>3. session[s].secret.version = session[s].version
      BY <2>1, <3>2, Facts DEF SessionOK
    <3>4. t.secret.version < session'[s].secret.version
      BY <1>3, <2>1, <2>2, <3>1, <3>3
    <3> QED
      BY <1>3, <2>1, <2>2, <3>1, <3>4
  <2>5. CASE s \in q.writes /\ q.op \notin {"sign-in", "rotate"}
    <3>1. session'[s].state = "REVOKED" /\ session'[s].secret = session[s].secret
      BY <2>5, CommitRevokes
    <3> QED
      BY <2>1, <2>2, <2>5, <3>1
  <2> QED
    BY <2>3, <2>4, <2>5
<1>5. ASSUME NEW t \in told', t \notin told
      PROVE  /\ t.session \in q.writes /\ t = [session |-> t.session, secret |-> t.secret]
             /\ q.op \in {"sign-in", "rotate"} /\ t.session \in Sessions
             /\ t.secret = session'[t.session].secret /\ session'[t.session].state = "LIVE"
  <2>1. PICK s \in q.writes : t = [session |-> s, secret |-> session'[s].secret]
    BY <1>2, <1>5
  <2>2. q.op \in {"sign-in", "rotate"}
    BY <1>2, <1>5
  <2>3. session'[s].state = "LIVE"
    BY <2>2, CommitSessions
  <2> QED
    BY <1>1, <2>1, <2>2, <2>3
<1>6. told' \subseteq [session : Sessions, secret : Secret]
  <2> SUFFICES ASSUME NEW t \in told', t \notin told
               PROVE  t \in [session : Sessions, secret : Secret]
    BY <1>1
  <2> QED
    BY <1>3, <1>5
<1>7. ToldOK'
  <2> SUFFICES ASSUME NEW t \in told'
               PROVE  /\ session'[t.session].state # "NONE"
                      /\ t.secret.version <= session'[t.session].secret.version
                      /\ t.secret.version = session'[t.session].secret.version =>
                           t.secret = session'[t.session].secret
    BY DEF ToldOK
  <2>1. CASE t \in told
    BY <1>4, <2>1
  <2>2. CASE t \notin told
    BY <1>3, <1>5, <2>2
  <2> QED
    BY <2>1, <2>2
<1>8. RotationIsExclusive'
  <2> SUFFICES ASSUME NEW t \in told', NEW u \in told', t.session = u.session,
                      t.secret.version = u.secret.version
               PROVE  t = u
    BY DEF RotationIsExclusive
  <2>1. CASE t \in told /\ u \in told
    BY <1>1, <2>1 DEF RotationIsExclusive
  <2>2. CASE t \notin told /\ u \notin told
    BY <1>5, <2>2
  <2>3. CASE t \in told /\ u \notin told
    BY <1>3, <1>4, <1>5, <2>3
  <2>4. CASE t \notin told /\ u \in told
    BY <1>3, <1>4, <1>5, <2>4
  <2> QED
    BY <2>1, <2>2, <2>3, <2>4
<1> QED
  BY <1>2, <1>6, <1>7, <1>8

\* A session that is live afterwards was live before, or its sign-in has just ended.
LEMMA CommitLive ==
  ASSUME IndInv, NEW r \in Requests, NEW heard \in BOOLEAN, Commit(r, heard),
         NEW s \in Sessions, session'[s].state = "LIVE"
  PROVE  \/ /\ session[s].state = "LIVE"
            /\ s \in request[r].writes => request[r].op = "rotate"
         \/ /\ session[s].state = "NONE"
            /\ s \in request[r].writes /\ request[r].op = "sign-in"
<1> DEFINE q == request[r]
<1>1. q.phase = "committing" /\ WritesOK(q)
  BY Committer DEF Commit, RequestOK
<1>2. CASE s \notin q.writes
  <2>1. session'[s] = session[s]
    BY <1>2, CommitOtherSessions
  <2> QED
    BY <1>2, <2>1
<1>3. CASE s \in q.writes /\ q.op = "sign-in"
  BY <1>1, <1>3 DEF WritesOK
<1>4. CASE s \in q.writes /\ q.op = "rotate"
  BY <1>4, CommitSessions
<1>5. CASE s \in q.writes /\ q.op \notin {"sign-in", "rotate"}
  <2>1. session'[s].state = "REVOKED"
    BY <1>5, CommitSessions
  <2> QED
    BY <2>1
<1> QED
  BY <1>2, <1>3, <1>4, <1>5

\* A COMMIT ends the sessions its transaction found, and revives none.
LEMMA CommitEnds ==
  ASSUME IndInv, NEW r \in Requests, NEW heard \in BOOLEAN, Commit(r, heard)
  PROVE  /\ ended' \subseteq Sessions
         /\ \A s \in ended' : session'[s].state = "REVOKED"
<1> DEFINE q == request[r]
<1>1. /\ q \in Request /\ RequestOK(q) /\ InTx(q) /\ q.phase = "committing"
      /\ q.known \in SUBSET Sessions /\ ended \subseteq Sessions
  BY Committer, RequestFields DEF Commit, IndInv, TypeOK
<1>2. ended' = ended \union q.known
  BY DEF Commit
<1>3. ASSUME NEW s \in ended PROVE session'[s].state = "REVOKED"
  <2>1. s \in Sessions /\ session[s].state = "REVOKED"
    BY <1>1 DEF IndInv, PastOK
  <2> QED
    BY <2>1, CommitKeeps
<1>4. ASSUME NEW s \in q.known PROVE session'[s].state = "REVOKED"
  <2>1. /\ s \in Sessions /\ session[s].state # "NONE" /\ EndsSessions(q)
        /\ session[s].state = "LIVE" => s \in q.writes
    BY <1>1 DEF RequestOK, TransactionOK
  <2>2. CASE session[s].state = "LIVE"
    <3>1. q.op \notin {"sign-in", "rotate"}
      BY <2>1 DEF EndsSessions
    <3> QED
      BY <2>1, <2>2, <3>1, CommitSessions
  <2>3. CASE session[s].state = "REVOKED"
    BY <2>1, <2>3, CommitKeeps
  <2> QED
    BY <2>1, <2>2, <2>3, Facts DEF Session
<1> QED
  BY <1>1, <1>2, <1>3, <1>4

\* A sign-in records what it read; a deactivation is newer than what any sign-in read.
LEMMA CommitPast ==
  ASSUME IndInv, NEW r \in Requests, NEW heard \in BOOLEAN, Commit(r, heard)
  PROVE  /\ seen' \in [Sessions -> Nat] /\ deactivated' \in Nat
         /\ PastOK' /\ InactiveHasNoSessions'
<1> DEFINE q == request[r]
<1>1. /\ q \in Request /\ RequestOK(q) /\ q.phase = "committing" /\ q.op \in AllOps
      /\ q.account \in Account /\ q.account.version \in Nat
      /\ account.version \in Nat /\ seen \in [Sessions -> Nat] /\ deactivated \in Nat
      /\ \A s \in Sessions : seen[s] <= account.version
  BY Committer, RequestFields, Facts DEF Commit, IndInv, TypeOK, Account, PastOK
<1>2. account' \in Account /\ account'.version \in Nat
      /\ (account' = account \/ account'.version = account.version + 1)
  BY CommitAccount DEF Account
<1>3. /\ seen' = [s \in Sessions |->
           IF q.op = "sign-in" /\ s \in q.writes THEN q.account.version ELSE seen[s]]
      /\ deactivated' = IF q.op = "set-status" /\ q.status # "ACTIVE" THEN account'.version
                        ELSE deactivated
  BY DEF Commit
<1> HIDE DEF q
<1>4. seen' \in [Sessions -> Nat] /\ deactivated' \in Nat
  BY <1>1, <1>2, <1>3
<1>5. ASSUME NEW s \in Sessions PROVE seen'[s] <= account.version /\ seen'[s] \in Nat
  BY <1>1, <1>3 DEF RequestOK, ReadsOK
<1>6. PastOK'
  <2>1. \A s \in Sessions : seen'[s] <= account'.version
    BY <1>1, <1>2, <1>5
  <2> QED
    BY <2>1, CommitEnds DEF PastOK
<1>7. ASSUME account'.status # "ACTIVE", NEW s \in Sessions, session'[s].state = "LIVE"
      PROVE  s \notin ended' /\ seen'[s] < deactivated'
  <2>1. s \notin ended'
    BY <1>7, CommitEnds
  <2>2. CASE q.op = "set-status"
    <3>1. q.status # "ACTIVE" /\ account'.version = account.version + 1
      BY <1>7, <2>2, CommitAccount DEF q, AccountOps
    <3> QED
      BY <1>1, <1>3, <1>5, <2>1, <2>2, <3>1
  <2>3. CASE q.op # "set-status"
    <3>1. account.status # "ACTIVE" /\ deactivated' = deactivated
      BY <1>1, <1>3, <1>7, <2>3, CommitAccount DEF q, AccountOps
    <3>2. CASE q.op = "sign-in" /\ s \in q.writes
      <4>1. q.account.status = "ACTIVE"
        BY <1>1, <3>2 DEF RequestOK, ReadsOK, Executing
      <4>2. q.account.version < deactivated
        BY <1>1, <3>1, <4>1 DEF RequestOK, ReadsOK
      <4> QED
        BY <1>3, <2>1, <3>1, <3>2, <4>2
    <3>3. CASE ~(q.op = "sign-in" /\ s \in q.writes)
      <4>1. session[s].state = "LIVE"
        BY <1>7, <3>3, CommitLive DEF q
      <4>2. seen[s] < deactivated /\ seen'[s] = seen[s]
        BY <1>3, <3>1, <3>3, <4>1 DEF IndInv, InactiveHasNoSessions
      <4> QED
        BY <2>1, <3>1, <4>2
    <3> QED
      BY <3>2, <3>3
  <2> QED
    BY <2>2, <2>3
<1> QED
  BY <1>4, <1>6, <1>7 DEF InactiveHasNoSessions

\* What COMMIT means to the calls it does not belong to: what they read is only older.
LEMMA CommitReads ==
  ASSUME IndInv, NEW r \in Requests, NEW heard \in BOOLEAN, Commit(r, heard),
         NEW v \in Requests \ {r}
  PROVE  ReadsOK(request[v])'
<1> DEFINE p == request[v]
<1>1. /\ p \in Request /\ ReadsOK(p) /\ p.account \in Account /\ p.account.version \in Nat
      /\ account \in Account /\ account.version \in Nat
  BY Facts, RequestFields DEF RequestOK, Account
<1>2. account' = account \/ account'.version = account.version + 1
  BY CommitAccount
<1>3. request'[v] = p
  BY DEF Commit, IndInv, TypeOK
<1>4. /\ account.version <= account'.version
      /\ (account'.version = account.version => account' = account)
  BY <1>1, <1>2
<1> HIDE DEF p
<1>5. ReadsOK(p)'
  <2>1. p.account.version <= account'.version
    BY <1>1, <1>2 DEF ReadsOK
  <2>2. p.account.version = account'.version => p.account = account'
    BY <1>1, <1>2 DEF ReadsOK
  <2>3. account.version > 0 => account'.version > 0
    BY <1>1, <1>2
  <2>4. p.account.status = "ACTIVE" /\ account'.status # "ACTIVE"
          => p.account.version < deactivated'
    <3>1. CASE request[r].op = "set-status" /\ request[r].status # "ACTIVE"
      <4>1. deactivated' = account'.version /\ account'.version = account.version + 1
        BY <3>1, CommitAccount DEF Commit, AccountOps
      <4> QED
        BY <1>1, <4>1 DEF ReadsOK
    <3>2. CASE ~(request[r].op = "set-status" /\ request[r].status # "ACTIVE")
      <4>1. deactivated' = deactivated
        BY <3>2 DEF Commit
      <4>2. account'.status # "ACTIVE" => account.status # "ACTIVE"
        BY <3>2, Committer, CommitAccount DEF Commit, AccountOps
      <4> QED
        BY <1>1, <4>1, <4>2 DEF ReadsOK
    <3> QED
      BY <3>1, <3>2
  <2> QED
    BY <1>1, <1>3, <2>1, <2>2, <2>3, <2>4 DEF ReadsOK, Active, p
<1> QED
  BY <1>3, <1>5 DEF p

LEMMA CommitPresents ==
  ASSUME IndInv, NEW r \in Requests, NEW heard \in BOOLEAN, Commit(r, heard),
         NEW v \in Requests \ {r}
  PROVE  PresentsOK(request[v])'
<1> DEFINE p == request[v]
           s == p.session
<1>1. /\ p \in Request /\ PresentsOK(p) /\ p.version \in Nat /\ p.secret \in Secret
      /\ request'[v] = p
  BY Facts, RequestFields DEF RequestOK, Commit, IndInv, TypeOK
<1> SUFFICES ASSUME p.op \in SecretOps, p.phase # "idle"
             PROVE  PresentsOK(p)'
  BY <1>1 DEF PresentsOK, Active
<1>2. /\ [session |-> s, secret |-> p.secret] \in told
      /\ [session |-> s, secret |-> p.secret] \in told'
  BY <1>1, CommitTold DEF PresentsOK
<1>3. /\ s \in Sessions /\ session[s].state # "NONE"
      /\ p.secret.version <= session[s].secret.version
      /\ p.secret.version \in Nat
  <2>1. [session |-> s, secret |-> p.secret] \in [session : Sessions, secret : Secret]
    BY <1>2, Facts
  <2> QED
    BY <1>1, <1>2, <2>1 DEF IndInv, ToldOK, Secret
<1>4. /\ session[s].version \in Nat /\ SessionOK(session[s])
      /\ session[s].version <= session'[s].version
  BY <1>3, Facts, CommitOtherSessions DEF Session
<1>5. CASE s \notin request[r].writes
  <2>1. session'[s] = session[s]
    BY <1>3, <1>5, CommitOtherSessions
  <2> QED
    BY <1>1, <1>2, <2>1 DEF PresentsOK, Active
<1>6. CASE s \in request[r].writes
  <2>1. session'[s].version = session[s].version + 1
    BY <1>6, CommitVersion
  <2>2. session'[s].state = "LIVE" => session'[s].secret # p.secret
    <3>1. CASE request[r].op \in {"sign-in", "rotate"}
      <4>1. session'[s].secret = [version |-> session'[s].version, by |-> r]
        BY <1>6, <3>1, CommitIssues
      <4>2. session[s].state = "LIVE"
        <5>1. request[r].op # "sign-in"
          BY <1>3, <1>6, CommitOpens
        <5> QED
          BY <1>6, <3>1, <5>1, CommitIssues
      <4>3. p.secret.version <= session[s].version
        BY <1>3, <1>4, <4>2 DEF SessionOK
      <4> QED
        BY <1>3, <1>4, <2>1, <4>1, <4>3
    <3>2. CASE request[r].op \notin {"sign-in", "rotate"}
      <4>1. session'[s].state = "REVOKED"
        BY <1>6, <3>2, CommitRevokes
      <4> QED
        BY <4>1
    <3> QED
      BY <3>1, <3>2
  <2>3. Active(p) /\ p.phase # "reading-session" =>
          p.secret.version = p.version /\ p.version < session'[s].version
    BY <1>1, <1>4, <2>1 DEF PresentsOK
  <2>4. Active(p) /\ p.phase # "reading-session" =>
          p.version <= session'[s].version /\ p.version # session'[s].version
    BY <1>1, <1>4, <2>1, <2>3
  <2> QED
    BY <1>1, <1>2, <2>2, <2>3, <2>4 DEF PresentsOK, Active
<1> QED
  BY <1>5, <1>6

LEMMA CommitCompletes ==
  ASSUME IndInv, NEW r \in Requests, NEW heard \in BOOLEAN, Commit(r, heard),
         NEW v \in Requests \ {r}
  PROVE  CompletesOK(request[v])'
<1> DEFINE p == request[v]
<1>1. CompletesOK(p) /\ request'[v] = p /\ NoChallenge \notin Challenges
  BY Facts, IdentityAssumption DEF RequestOK, Commit, IndInv, TypeOK
<1>2. InTx(request[r]) /\ ~Conflict(p, request[r])
  BY Committer DEF Commit, IndInv
<1>3. CASE p.op \in CompleteOps /\ Active(p)
  <2>1. p.challenge \in Challenges /\ challenge[p.challenge].state # "NONE"
    BY <1>1, <1>3 DEF CompletesOK
  <2>2. /\ challenge'[p.challenge].state # "NONE"
        /\ challenge'[p.challenge].kind = challenge[p.challenge].kind
    BY <2>1, CommitChallenges
  <2> QED
    BY <1>1, <1>3, <2>1, <2>2 DEF CompletesOK, Active, CompleteOps, RequestOps
<1>4. CASE p.op \in RequestOps /\ p.phase = "committing"
  <2>1. p.challenge \in Challenges /\ p.challenge # request[r].challenge
    BY <1>1, <1>2, <1>4 DEF CompletesOK, Conflict, InTx
  <2>2. challenge'[p.challenge] = challenge[p.challenge]
    BY <2>1, CommitChallenges
  <2> QED
    BY <1>1, <1>4, <2>1, <2>2 DEF CompletesOK, Active, CompleteOps, RequestOps
<1>5. CASE ~(p.op \in CompleteOps /\ Active(p)) /\ ~(p.op \in RequestOps /\ p.phase = "committing")
  BY <1>1, <1>5 DEF CompletesOK, Active
<1> QED
  BY <1>3, <1>4, <1>5

\* Two transactions are disjoint: what one has compared its rows with, the other left alone.
LEMMA CommitTransactions ==
  ASSUME IndInv, NEW r \in Requests, NEW heard \in BOOLEAN, Commit(r, heard),
         NEW v \in Requests \ {r}
  PROVE  TransactionOK(request[v])' /\ WritesOK(request[v])'
<1> DEFINE p == request[v]
           q == request[r]
<1>1. /\ TransactionOK(p) /\ WritesOK(p) /\ CompletesOK(p) /\ request'[v] = p
      /\ p.writes \in SUBSET Sessions /\ p.known \in SUBSET Sessions
      /\ NoChallenge \notin Challenges
  BY Facts, RequestFields, IdentityAssumption DEF RequestOK, Commit, IndInv, TypeOK
<1>2. InTx(q) /\ ~Conflict(p, q) /\ q.phase = "committing" /\ ~Conflict(q, p)
  BY Committer DEF Commit, IndInv
<1>3. ASSUME InTx(p) PROVE TransactionOK(p)'
  <2>1. p.op \in AccountOps => account' = account
    BY <1>2, <1>3, CommitAccount DEF Conflict
  <2>2. p.op \in CredentialOps => credential' = credential
    BY <1>2, <1>3, CommitAccount DEF Conflict
  <2>3. p.op \in CompleteOps => challenge'[p.challenge] = challenge[p.challenge]
    <3>1. SUFFICES ASSUME p.op \in CompleteOps
                   PROVE  challenge'[p.challenge] = challenge[p.challenge]
      OBVIOUS
    <3>2. p.challenge \in Challenges
      BY <1>1, <1>3, <3>1 DEF CompletesOK, InTx, Active, Answers
    <3>3. p.challenge # q.challenge
      BY <1>1, <1>2, <1>3, <3>2 DEF Conflict
    <3> QED
      BY <3>2, <3>3, CommitChallenges
  <2>4. ASSUME NEW s \in p.known
        PROVE  /\ session'[s].state # "NONE"
               /\ session'[s].state = "LIVE" => s \in p.writes
    <3>1. /\ s \in Sessions /\ session[s].state # "NONE"
          /\ session[s].state = "LIVE" => s \in p.writes
      BY <1>1, <1>3, <2>4 DEF TransactionOK
    <3>2. session'[s].state # "NONE"
      BY <3>1, CommitKeeps
    <3> QED
      BY <3>1, <3>2, CommitLive
  <2> QED
    BY <1>1, <1>3, <2>1, <2>2, <2>3, <2>4
       DEF TransactionOK, InTx, AccountOps, CredentialOps, EndsSessions
<1>4. ASSUME p.phase = "committing" PROVE WritesOK(p)'
  <2>1. \A s \in p.writes : session'[s] = session[s]
    <3> SUFFICES ASSUME NEW s \in p.writes PROVE session'[s] = session[s]
      OBVIOUS
    <3>1. s \notin q.writes
      BY <1>2, <1>4 DEF Conflict, InTx
    <3> QED
      BY <1>1, <3>1, CommitOtherSessions
  <2>2. p.op \in {"rotate", "sign-out"} => session'[p.session] = session[p.session]
    BY <1>1, <1>4, <2>1 DEF WritesOK
  <2> QED
    BY <1>1, <1>4, <2>1, <2>2 DEF WritesOK
<1> QED
  BY <1>1, <1>3, <1>4 DEF TransactionOK, WritesOK, InTx

LEMMA CommitOthers ==
  ASSUME IndInv, NEW r \in Requests, NEW heard \in BOOLEAN, Commit(r, heard),
         NEW v \in Requests \ {r}
  PROVE  RequestOK(request[v])'
<1>1. request'[v] = request[v] /\ OperationOK(request[v])
  BY Facts DEF Commit, IndInv, TypeOK, RequestOK
<1>2. OperationOK(request[v])'
  BY <1>1 DEF OperationOK, InTx
<1> QED
  BY <1>2, CommitReads, CommitPresents, CommitCompletes, CommitTransactions DEF RequestOK

\* The call itself is over.
LEMMA CommitOwn ==
  ASSUME IndInv, NEW r \in Requests, NEW heard \in BOOLEAN, Commit(r, heard)
  PROVE  request' \in [Requests -> Request] /\ RequestOK(request[r])' /\ ~InTx(request'[r])
<1> DEFINE old == request[r]
           d == [Idle EXCEPT !.op = old.op, !.phase = "done", !.session = old.session,
                             !.secret = old.secret]
           q == IF heard THEN d ELSE Idle
<1>1. /\ old \in Request /\ PresentsOK(old) /\ WritesOK(old) /\ old.phase = "committing"
      /\ old.op \in AllOps /\ old.session \in Sessions \union {NoSession}
      /\ old.secret \in Secret
  BY Committer, RequestFields DEF Commit, RequestOK
<1>0. request' = [request EXCEPT ![r] = q] /\ request \in [Requests -> Request]
  BY DEF Commit, IndInv, TypeOK
<1> HIDE DEF old
<1>2. /\ q \in Request /\ q.phase \in {"idle", "done"} /\ q.writes = {} /\ q.known = {}
      /\ q.challenge = NoChallenge /\ q.account = NoAccount
      /\ q.phase = "done" => q.op = old.op /\ q.session = old.session /\ q.secret = old.secret
      /\ q.phase = "idle" => q.op = "none"
  <2>1. /\ d \in Request /\ d.phase = "done" /\ d.writes = {} /\ d.known = {}
        /\ d.challenge = NoChallenge /\ d.account = NoAccount
        /\ d.op = old.op /\ d.session = old.session /\ d.secret = old.secret
    BY <1>1, IdleFields DEF Request, Phases, Answers
  <2> HIDE DEF d
  <2> QED
    BY <2>1, IdleFields
<1> HIDE DEF q
<1>3. request'[r] = q /\ request' \in [Requests -> Request]
  BY <1>0, <1>2
<1>4. ~InTx(q) /\ ~Active(q) /\ OperationOK(q) /\ q.phase \notin Executing
  BY <1>2 DEF InTx, Active, OperationOK, Answers, Executing
<1>5. ReadsOK(request[r])'
  <2>1. AccountOK' /\ account' \in Account
    BY CommitAccount
  <2>2. q.account.version = 0 /\ account'.version \in Nat
    BY <1>2, <2>1 DEF NoAccount, Account
  <2>3. account'.version = 0 => account' = q.account
    BY <1>2, <2>1 DEF AccountOK
  <2>4. q.account.status # "ACTIVE"
    BY <1>2 DEF NoAccount
  <2> QED
    BY <1>2, <1>3, <1>4, <2>2, <2>3, <2>4 DEF ReadsOK, Active
<1>6. PresentsOK(request[r])'
  <2> SUFFICES ASSUME q.op \in SecretOps, q.phase = "done"
               PROVE  PresentsOK(request[r])'
    BY <1>2, <1>3 DEF PresentsOK, SecretOps
  <2>1. [session |-> q.session, secret |-> q.secret] \in told'
    BY <1>1, <1>2, CommitTold DEF PresentsOK
  <2>2. q.op = "sign-out" => session'[q.session].state = "REVOKED"
    <3>1. SUFFICES ASSUME q.op = "sign-out" PROVE session'[q.session].state = "REVOKED"
      OBVIOUS
    <3>2. old.op = "sign-out" /\ q.session \in old.writes
      BY <1>1, <1>2, <3>1 DEF WritesOK
    <3> QED
      BY <3>2, CommitRevokes DEF old
  <2> QED
    BY <1>2, <1>3, <1>4, <2>1, <2>2 DEF PresentsOK, Active, Answers
<1>7. CompletesOK(request[r])' /\ TransactionOK(request[r])' /\ WritesOK(request[r])'
  BY <1>2, <1>3, <1>4 DEF CompletesOK, TransactionOK, WritesOK, InTx, Active
<1>8. OperationOK(request[r])'
  BY <1>3, <1>4 DEF OperationOK, InTx
<1> QED
  BY <1>3, <1>4, <1>5, <1>6, <1>7, <1>8 DEF RequestOK

LEMMA CommitInv ==
  ASSUME IndInv, NEW r \in Requests, NEW heard \in BOOLEAN, Commit(r, heard)
  PROVE  IndInv'
<1>1. now' \in Nat
  BY DEF Commit, IndInv, TypeOK
<1>2. TypeOK'
  BY <1>1, CommitAccount, CommitOtherSessions, CommitChallenges, CommitOwn, CommitTold,
     CommitEnds, CommitPast DEF TypeOK
<1>3. /\ AccountOK' /\ ToldOK' /\ RotationIsExclusive' /\ InactiveHasNoSessions' /\ PastOK'
  BY CommitAccount, CommitTold, CommitPast
<1>4. \A s \in Sessions : SessionOK(session[s])'
  BY CommitOtherSessions DEF SessionOK
<1>5. \A c \in Challenges : ChallengeOK(challenge[c])'
  BY CommitChallenges
<1>6. \A v \in Requests : RequestOK(request[v])'
  BY CommitOthers, CommitOwn
<1>7. ASSUME NEW u \in Requests, NEW v \in Requests, u # v
      PROVE  ~Conflict(request[u], request[v])'
  <2>1. CASE u = r \/ v = r
    BY <2>1, CommitOwn DEF Conflict, InTx
  <2>2. CASE u # r /\ v # r
    <3>1. request'[u] = request[u] /\ request'[v] = request[v]
      BY <2>2 DEF Commit, IndInv, TypeOK
    <3> QED
      BY <1>7, <3>1 DEF IndInv, Conflict, InTx
  <2> QED
    BY <2>1, <2>2
<1> QED
  BY <1>2, <1>3, <1>4, <1>5, <1>6, <1>7 DEF IndInv

-----------------------------------------------------------------------------
(* The theorems.                                                           *)

\* Only the clock changes, or nothing.
LEMMA ClockInv ==
  ASSUME IndInv, UNCHANGED <<rows, request, told, past>>, now' \in Nat
  PROVE  IndInv'
<1>1. /\ account' = account /\ credential' = credential /\ session' = session
      /\ challenge' = challenge /\ request' = request /\ told' = told
      /\ ended' = ended /\ seen' = seen /\ deactivated' = deactivated
  BY DEF rows, past
<1>2. TypeOK'
  BY <1>1 DEF IndInv, TypeOK
<1>3. AccountOK' /\ ToldOK' /\ RotationIsExclusive' /\ InactiveHasNoSessions' /\ PastOK'
  BY <1>1 DEF IndInv, AccountOK, ToldOK, RotationIsExclusive, InactiveHasNoSessions, PastOK
<1>4. /\ \A s \in Sessions : SessionOK(session[s])'
      /\ \A c \in Challenges : ChallengeOK(challenge[c])'
  BY <1>1 DEF IndInv, SessionOK, ChallengeOK
<1>5. ASSUME NEW v \in Requests PROVE RequestOK(request[v])'
  <2>1. RequestOK(request[v])
    BY DEF IndInv
  <2>2. OperationOK(request[v])' /\ ReadsOK(request[v])'
    BY <1>1, <2>1 DEF RequestOK, OperationOK, ReadsOK, InTx, Active
  <2>3. PresentsOK(request[v])' /\ CompletesOK(request[v])'
    BY <1>1, <2>1 DEF RequestOK, PresentsOK, CompletesOK, Active
  <2>4. TransactionOK(request[v])' /\ WritesOK(request[v])'
    BY <1>1, <2>1 DEF RequestOK, TransactionOK, WritesOK, InTx
  <2> QED
    BY <2>2, <2>3, <2>4 DEF RequestOK
<1>6. \A u, v \in Requests : u # v => ~Conflict(request[u], request[v])'
  BY <1>1 DEF IndInv, Conflict, InTx
<1> QED
  BY <1>2, <1>3, <1>4, <1>5, <1>6 DEF IndInv

LEMMA InitInv == Init => IndInv
<1> SUFFICES ASSUME Init PROVE IndInv
  OBVIOUS
<1>1. /\ NoAccount \in Account /\ NoCredential \in Credential
      /\ NoSessionRow \in Session /\ NoChallengeRow \in Challenge
  <2>1. NoSecret \in Secret
    BY DEF NoSecret, Secret
  <2> QED
    BY <2>1, IdleFields DEF NoCredential, Credential, NoSessionRow, Session, NoChallengeRow,
                            Challenge
<1>2. TypeOK
  BY <1>1, IdleFields DEF Init, TypeOK
<1>3. AccountOK /\ ToldOK /\ RotationIsExclusive
  BY DEF Init, AccountOK, NoAccount, NoCredential, ToldOK, RotationIsExclusive
<1>4. ASSUME NEW s \in Sessions PROVE SessionOK(session[s]) /\ session[s].state # "LIVE"
  BY IdentityAssumption DEF Init, SessionOK, NoSessionRow
<1>5. InactiveHasNoSessions /\ PastOK
  BY <1>4 DEF Init, InactiveHasNoSessions, PastOK, NoAccount
<1>6. \A c \in Challenges : ChallengeOK(challenge[c])
  BY DEF Init, ChallengeOK, NoChallengeRow
<1>7. OperationOK(Idle) /\ PresentsOK(Idle) /\ CompletesOK(Idle) /\ ~InTx(Idle)
  BY IdleFields DEF OperationOK, PresentsOK, CompletesOK, InTx,
                   SecretOps, CompleteOps, RequestOps
<1>8. ReadsOK(Idle)
  BY <1>3, IdleFields
     DEF Init, ReadsOK, AccountOK, Active, Executing, NoAccount, ResetOps
<1>9. RequestOK(Idle)
  BY <1>7, <1>8 DEF RequestOK, TransactionOK, WritesOK, InTx
<1>10. \A r \in Requests : request[r] = Idle
  BY DEF Init
<1>11. \A r, v \in Requests : ~Conflict(request[r], request[v])
  BY <1>7, <1>10 DEF Conflict
<1> QED
  BY <1>2, <1>3, <1>4, <1>5, <1>6, <1>9, <1>10, <1>11 DEF IndInv

LEMMA NextInv == IndInv /\ [Next]_vars => IndInv'
<1> SUFFICES ASSUME IndInv, [Next]_vars PROVE IndInv'
  OBVIOUS
<1>1. CASE UNCHANGED vars
  <2>1. now' \in Nat /\ UNCHANGED <<rows, request, told, past>>
    BY <1>1 DEF vars, rows, past, IndInv, TypeOK
  <2> QED
    BY <2>1, ClockInv
<1>2. CASE Tick
  <2>1. now' \in Nat /\ UNCHANGED <<rows, request, told, past>>
    BY <1>2 DEF Tick, IndInv, TypeOK
  <2> QED
    BY <2>1, ClockInv
<1>3. ASSUME NEW r \in Requests, Start(r) PROVE IndInv'
  BY <1>3, StartInv
<1>4. ASSUME NEW r \in Requests, Step(r) PROVE IndInv'
  <2>1. CASE ReadSession(r) \/ ReadAccount(r) \/ ReadCredential(r) \/ ReadChallenge(r)
    BY <2>1, ReadSessionInv, ReadAccountInv, ReadCredentialInv, ReadChallengeInv
  <2>2. CASE Execute(r) \/ Revoke(r)
    BY <2>2, ExecuteInv, RevokeInv
  <2>3. ASSUME NEW heard \in BOOLEAN, Commit(r, heard) PROVE IndInv'
    BY <2>3, CommitInv
  <2> QED
    BY <1>4, <2>1, <2>2, <2>3 DEF Step
<1>5. ASSUME NEW r \in Requests, Abort(r) \/ Return(r) PROVE IndInv'
  BY <1>5, IdleInv DEF Abort, Return
<1> QED
  BY <1>1, <1>2, <1>3, <1>4, <1>5 DEF Next

\* The inductive invariant holds in every state.
THEOREM Invariance == Spec => []IndInv
BY InitInv, NextInv, PTL DEF Spec

\* Every variable keeps its type.
THEOREM TypeCorrect == Spec => []TypeOK
<1>1. IndInv => TypeOK
  BY DEF IndInv
<1> QED
  BY <1>1, Invariance, PTL

\* Of the concurrent rotations of a session (rotateCurrentSession) only one answers its
\* caller with the secret that follows the same one.
THEOREM RotationsExclude == Spec => []RotationIsExclusive
<1>1. IndInv => RotationIsExclusive
  BY DEF IndInv
<1> QED
  BY <1>1, Invariance, PTL

\* After signOut returned, whoever won the update, its secret opens no session.
THEOREM SignOutIsFinal == Spec => []SignedOutSecretIsDead
<1>1. ASSUME IndInv, NEW r \in Requests, request[r].op = "sign-out", request[r].phase = "done"
      PROVE  LET s == session[request[r].session]
             IN  s.state = "LIVE" => s.secret # request[r].secret
  BY <1>1, Facts DEF RequestOK, PresentsOK, SecretOps
<1>2. IndInv => SignedOutSecretIsDead
  BY <1>1 DEF SignedOutSecretIsDead
<1> QED
  BY <1>2, Invariance, PTL

\* setAccountStatus leaves an account that is no longer ACTIVE no session but those of
\* sign-ins that read the account before and ended after its transaction had begun.
THEOREM StatusEndsSessions == Spec => []InactiveHasNoSessions
<1>1. IndInv => InactiveHasNoSessions
  BY DEF IndInv
<1> QED
  BY <1>1, Invariance, PTL

\* revokeAllSessionsForAccount, for a new password, a reset, a deactivation or a sign-out of
\* all sessions, ends every session that existed when its transaction began, for good.
THEOREM RevocationEndsSessions == Spec => []RevocationIsComplete
<1>1. IndInv => RevocationIsComplete
  BY DEF IndInv, PastOK, RevocationIsComplete
<1> QED
  BY <1>1, Invariance, PTL

\* completeEmailVerification consumes its challenge only together with its effect.
THEOREM VerificationTakesEffect == Spec => []VerificationNotWasted
<1>1. IndInv => VerificationNotWasted
  BY DEF IndInv, ChallengeOK, VerificationNotWasted
<1> QED
  BY <1>1, Invariance, PTL

-----------------------------------------------------------------------------
(* What a step may do.                                                     *)

\* The rows, and what callers know, change only at COMMIT.
LEMMA OnlyCommits ==
  ASSUME [Next]_vars
  PROVE  \/ UNCHANGED <<rows, told>>
         \/ \E r \in Requests, heard \in BOOLEAN : Commit(r, heard)
<1>1. CASE UNCHANGED vars \/ Tick
  BY <1>1 DEF vars, rows, Tick
<1>2. ASSUME NEW r \in Requests, Start(r) \/ Abort(r) \/ Return(r)
      PROVE  UNCHANGED <<rows, told>>
  BY <1>2 DEF Start, Provision, SignIn, WithSecret, RequestChallenge, CompleteReset,
              CompleteVerification, SetAccountStatus, SignOutAll, ChangePassword, Begin,
              Continue, Abort, Return, Goto
<1>3. ASSUME NEW r \in Requests,
             ReadSession(r) \/ ReadAccount(r) \/ ReadCredential(r) \/ ReadChallenge(r)
      PROVE  UNCHANGED <<rows, told>>
  BY <1>3 DEF ReadSession, ReadAccount, ReadCredential, ReadChallenge, Proceed, Answer, Goto
<1>4. ASSUME NEW r \in Requests, Execute(r) \/ Revoke(r)
      PROVE  UNCHANGED <<rows, told>>
  BY <1>4 DEF Execute, ExecuteProvision, ExecuteSignIn, ReplaceSession, ExecuteSignOutAll,
              ExecuteChangePassword, ExecuteCompleteReset, ExecuteRequestChallenge,
              ExecuteCompleteVerification, ExecuteSetAccountStatus, Revoke, Revokes, Commits,
              Transacts, Refuses, Fails, Answer, Goto
<1> QED
  BY <1>1, <1>2, <1>3, <1>4 DEF Next, Step

\* The two calls that rewrite the account row, completeEmailVerification and
\* setAccountStatus, never undo one another.
THEOREM AccountUpdatesAreKept == Spec => NoLostUpdate
<1>1. ASSUME IndInv, [Next]_vars, account.version > 0
      PROVE  /\ account.verified = "yes" => account'.verified = "yes"
             /\ account'.status # account.status => \E r \in Requests : Committing(r, "set-status")
  <2>1. CASE account' = account
    BY <2>1
  <2>2. ASSUME NEW r \in Requests, NEW heard \in BOOLEAN, Commit(r, heard)
        PROVE  /\ account.verified = "yes" => account'.verified = "yes"
               /\ account'.status # account.status => Committing(r, "set-status")
    <3>1. request[r].op # "provision"
      BY <1>1, <2>2, CommitAccount
    <3>2. CASE request[r].op = "complete-verification"
      <4>1. account'.verified = "yes" /\ account'.status = account.status
        BY <1>1, <2>2, <3>2, CommitAccount
      <4> QED
        BY <4>1
    <3>3. CASE request[r].op = "set-status"
      <4>1. account'.verified = account.verified
        BY <1>1, <2>2, <3>3, CommitAccount
      <4> QED
        BY <2>2, <3>3, <4>1 DEF Commit, Committing
    <3>4. CASE request[r].op \notin AccountOps
      <4>1. account' = account
        BY <1>1, <2>2, <3>4, CommitAccount
      <4> QED
        BY <4>1
    <3> QED
      BY <3>1, <3>2, <3>3, <3>4 DEF AccountOps
  <2> QED
    BY <1>1, <2>1, <2>2, OnlyCommits DEF rows
<1>2. IndInv /\ [Next]_vars =>
        [account.version > 0 =>
           /\ account.verified = "yes" => account'.verified = "yes"
           /\ account'.status # account.status =>
                \E r \in Requests : Committing(r, "set-status")]_vars
  BY <1>1
<1> QED
  BY <1>2, Invariance, PTL DEF Spec, NoLostUpdate

\* changePassword and completePasswordReset replace the credential they compared the
\* password with, or the one of a challenge they consume with it.
THEOREM CredentialUpdatesAreKept == Spec => PasswordReplacedOnce
<1>1. ASSUME IndInv, NEW r \in Requests, NEW heard \in BOOLEAN, Commit(r, heard),
             credential.version > 0, credential' # credential
      PROVE  /\ request[r].credentialVersion = credential.version
             /\ \/ Committing(r, "change-password")
                \/ /\ Committing(r, "complete-reset")
                   /\ challenge[request[r].challenge].state = "ACTIVE"
                   /\ challenge'[request[r].challenge].state = "CONSUMED"
  <2>1. request[r].op \in CredentialOps /\ AccountOK
    BY <1>1, CommitAccount DEF IndInv
  <2>2. request[r].op # "provision"
    BY <1>1, <2>1, CommitAccount DEF AccountOK
  <2>3. request[r].op \in ResetOps /\ request[r].phase = "committing"
    BY <1>1, <2>1, <2>2 DEF CredentialOps, Commit
  <2>4. request[r].credentialVersion = credential.version
    BY <1>1, <2>3, Committer DEF RequestOK, TransactionOK
  <2>5. request[r].op = "complete-reset" =>
          /\ challenge[request[r].challenge].state = "ACTIVE"
          /\ challenge'[request[r].challenge].state = "CONSUMED"
    BY <1>1, CommitChallenges DEF CompleteOps
  <2> QED
    BY <2>3, <2>4, <2>5 DEF Committing, ResetOps
<1>2. IndInv /\ [Next]_vars =>
        [credential.version > 0 /\ credential' # credential =>
           \E r \in Requests :
             /\ request[r].credentialVersion = credential.version
             /\ \/ Committing(r, "change-password")
                \/ /\ Committing(r, "complete-reset")
                   /\ challenge[request[r].challenge].state = "ACTIVE"
                   /\ challenge'[request[r].challenge].state = "CONSUMED"]_vars
  BY <1>1, OnlyCommits DEF rows
<1> QED
  BY <1>2, Invariance, PTL DEF Spec, PasswordReplacedOnce

-----------------------------------------------------------------------------
(* The refinement: each COMMIT is one step of the contract on the sessions *)
(* it writes.                                                              *)

LEMMA IssuedSecret ==
  ASSUME IndInv, NEW r \in Requests, NEW heard \in BOOLEAN, Commit(r, heard),
         NEW s \in request[r].writes, request[r].op \in {"sign-in", "rotate"}
  PROVE  session'[s].secret \in [version : 1..MaxVersion, by : Requests]
<1>1. s \in Sessions
  BY Committer DEF Commit
<1>2. SessionOK(session'[s]) /\ session'[s].state = "LIVE"
  BY <1>1, CommitOtherSessions, CommitIssues
<1> QED
  BY <1>2 DEF SessionOK

LEMMA OpenRefines ==
  ASSUME IndInv, NEW r \in Requests, NEW heard \in BOOLEAN, Commit(r, heard),
         request[r].op = "sign-in"
  PROVE  Contract!Next
<1>1. PICK s \in Sessions : request[r].writes = {s} /\ session[s].state = "NONE"
  BY Committer DEF Commit, RequestOK, WritesOK
<1>2. PICK x \in [version : 1..MaxVersion, by : Requests] : x = session'[s].secret
  BY <1>1, IssuedSecret
<1>9. session'[s].state = "LIVE"
  BY <1>1, CommitOpens
<1>3. \A u \in Sessions : u # s => session'[u] = session[u]
  BY <1>1, CommitOtherSessions
<1>4. told' = told \union {[session |-> s, secret |-> x]} \/ told' = told
  BY <1>1, <1>2 DEF Commit
<1>5. [u \in Sessions |-> StageOf(session'[u])] =
        [[u \in Sessions |-> StageOf(session[u])] EXCEPT ![s] = "live"]
  <2>1. StageOf(session'[s]) = "live"
    BY <1>9 DEF StageOf
  <2> QED
    BY <1>3, <2>1
<1>6. [u \in Sessions |-> session'[u].secret] =
        [[u \in Sessions |-> session[u].secret] EXCEPT ![s] = x]
  BY <1>2, <1>3
<1>7. StageOf(session[s]) = "none"
  BY <1>1 DEF StageOf
<1>8. Contract!Open(s, x)
  BY <1>4, <1>5, <1>6, <1>7
     DEF Contract!Open, Contract!Give, Contract!Given, StageOf
<1> QED
  BY <1>2, <1>8 DEF Contract!Next

LEMMA RotateRefines ==
  ASSUME IndInv, NEW r \in Requests, NEW heard \in BOOLEAN, Commit(r, heard),
         request[r].op = "rotate"
  PROVE  Contract!Next
<1> DEFINE s == request[r].session
<1>1. /\ request[r].writes = {s} /\ s \in Sessions
      /\ [session |-> s, secret |-> request[r].secret] \in told
  BY Committer DEF Commit, RequestOK, WritesOK, PresentsOK, SecretOps
<1> HIDE DEF s
<1>0. PICK x \in [version : 1..MaxVersion, by : Requests] : x = session'[s].secret
  BY <1>1, IssuedSecret
<1>2. /\ session'[s].state = "LIVE"
      /\ session[s].state = "LIVE" /\ session[s].secret = request[r].secret
      /\ x = [version |-> session'[s].version, by |-> r]
  BY <1>0, <1>1, CommitIssues
<1>3. \A u \in Sessions : u # s => session'[u] = session[u]
  BY <1>1, CommitOtherSessions
<1>4. told' = told \union {[session |-> s, secret |-> x]} \/ told' = told
  BY <1>0, <1>1 DEF Commit
<1>5. session'[s].version = session[s].version + 1
  BY <1>1, CommitVersion
<1>6. [session |-> s, secret |-> x] \notin told
  <2>1. session[s].secret.version = session[s].version /\ session[s].version \in Nat
    BY <1>1, <1>2, Facts DEF SessionOK, Session
  <2>2. \A t \in told : t.session = s => t.secret.version <= session[s].secret.version
    BY DEF IndInv, ToldOK
  <2>3. x.version = session[s].version + 1
    BY <1>2, <1>5
  <2> QED
    BY <2>1, <2>2, <2>3
<1>7. [u \in Sessions |-> StageOf(session'[u])] = [u \in Sessions |-> StageOf(session[u])]
  <2>1. StageOf(session'[s]) = "live" /\ StageOf(session[s]) = "live"
    BY <1>2 DEF StageOf
  <2> QED
    BY <1>3, <2>1
<1>8. [u \in Sessions |-> session'[u].secret] =
        [[u \in Sessions |-> session[u].secret] EXCEPT ![s] = x]
  BY <1>0, <1>3
<1>9. StageOf(session[s]) = "live"
  BY <1>2 DEF StageOf
<1>10. Contract!Rotate(s, x)
  BY <1>1, <1>2, <1>4, <1>6, <1>7, <1>8, <1>9
     DEF Contract!Rotate, Contract!Give, Contract!Given, StageOf
<1> QED
  BY <1>1, <1>10 DEF Contract!Next

LEMMA RevokeRefines ==
  ASSUME IndInv, NEW r \in Requests, NEW heard \in BOOLEAN, Commit(r, heard),
         request[r].op \notin {"sign-in", "rotate"}
  PROVE  Contract!Next
<1> DEFINE S == request[r].writes
<1>1. S \in SUBSET Sessions
  BY Committer DEF Commit
<1>2. \A s \in S : /\ session[s].state = "LIVE" /\ session'[s].state = "REVOKED"
                   /\ session'[s].secret = session[s].secret
  BY CommitRevokes
<1>3. \A s \in Sessions \ S : session'[s] = session[s]
  BY CommitOtherSessions
<1>4. told' = told
  BY DEF Commit
<1> HIDE DEF S
<1>5. \A s \in S : StageOf(session[s]) = "live" /\ StageOf(session'[s]) = "revoked"
  BY <1>2 DEF StageOf
<1>6. [s \in Sessions |-> StageOf(session'[s])] =
        [s \in Sessions |-> IF s \in S THEN "revoked" ELSE StageOf(session[s])]
  BY <1>3, <1>5
<1>7. [s \in Sessions |-> session'[s].secret] = [s \in Sessions |-> session[s].secret]
  BY <1>2, <1>3
<1>8. Contract!Revoke(S)
  BY <1>1, <1>4, <1>5, <1>6, <1>7 DEF Contract!Revoke
<1> QED
  BY <1>1, <1>8 DEF Contract!Next

\* However the calls of IdentityService interleave, each of its transactions acts on the
\* sessions in one atomic step: a sign-in opens one, a rotation exchanges the current
\* secret of one for a new one on behalf of a caller who was given it, and everything
\* else revokes for good.
THEOREM ServiceImplementsContract == Spec => ImplementsContract
<1>1. Init => Contract!Init
  <2> SUFFICES ASSUME Init PROVE Contract!Init
    OBVIOUS
  <2>1. \A s \in Sessions : StageOf(session[s]) = "none" /\ session[s].secret = NoSecret
    BY DEF Init, NoSessionRow, StageOf
  <2> QED
    BY <2>1 DEF Init, Contract!Init
<1>2. IndInv /\ [Next]_vars => [Contract!Next]_Contract!vars
  <2> SUFFICES ASSUME IndInv, [Next]_vars PROVE [Contract!Next]_Contract!vars
    OBVIOUS
  <2>1. CASE UNCHANGED <<rows, told>>
    BY <2>1 DEF rows, Contract!vars
  <2>2. ASSUME NEW r \in Requests, NEW heard \in BOOLEAN, Commit(r, heard)
        PROVE  Contract!Next
    BY <2>2, OpenRefines, RotateRefines, RevokeRefines
  <2> QED
    BY <2>1, <2>2, OnlyCommits
<1> QED
  BY <1>1, <1>2, Invariance, PTL DEF Spec, ImplementsContract, Contract!Spec
=============================================================================
