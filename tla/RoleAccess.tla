----------------------------- MODULE RoleAccess -----------------------------
(***************************************************************************)
(* Roles, their permissions and the roles of accounts (packages/identity,  *)
(* roles.ts and persistence/postgres-role-access-store.ts), changed by     *)
(* concurrent requests of privileged actors and recorded in the audit      *)
(* trail.                                                                  *)
(*                                                                         *)
(* A request first resolves its actor: the permissions of its account at   *)
(* that moment.  An operation checks them, reads what it is about to       *)
(* replace outside any transaction, and ends in one READ COMMITTED         *)
(* transaction: the statement that takes the row lock and compares the     *)
(* version, then the rows that depend on it, the audit record and COMMIT.  *)
(***************************************************************************)
EXTENDS Naturals, FiniteSetsExt

CONSTANTS Requests,     \* HTTP requests in progress at the same time
          Accounts, Roles, Names,
          Permissions,  \* the generated permission catalogue
          Grants,       \* the sets of permissions callers give to roles
          NoAccount, NoRole, NoName,
          MaxChanges    \* bound on the changes committed

ManageRoles == "identity.roles.manage"

ASSUME RoleAccessAssumption ==
  /\ ManageRoles \in Permissions
  /\ NoAccount \notin Accounts /\ NoRole \notin Roles /\ NoName \notin Names
  /\ MaxChanges \in Nat

VARIABLES role,      \* identity_roles with identity_role_permissions
          roleSet,   \* identity_account_role_sets with identity_account_roles
          audit,     \* how many audit records name a role or an account
          request,   \* the locals of each request
          held       \* history: the permissions an account had when its request authenticated

rows == <<role, roleSet, audit>>
accessVars == <<role, roleSet, audit, request, held>>

\* Version 0 is a row that does not exist.
Role == [name : Names \union {NoName}, permissions : SUBSET Permissions, version : Nat]
RoleSet == [roles : SUBSET Roles, version : Nat]

AbsentRole == [name |-> NoName, permissions |-> {}, version |-> 0]
AbsentSet == [roles |-> {}, version |-> 0]

Operations == {"create-role", "replace-permissions", "assign-roles"}

Request == [phase : {"idle", "authenticated", "reading", "executing", "committing", "delegated"},
            account : Accounts \union {NoAccount},
            access : SUBSET Permissions,     \* actor.permissions
            assurance : {"AAL1", "AAL2"},
            op : Operations \union {"none"},
            role : Roles \union {NoRole},    \* the role it creates or changes
            target : Accounts \union {NoAccount},
            expected : Nat,                  \* expectedVersion, named by the caller
            newRole : Role,                  \* the row to write
            newRoles : SUBSET Roles]

Idle == [phase |-> "idle", account |-> NoAccount, access |-> {}, assurance |-> "AAL1",
         op |-> "none", role |-> NoRole, target |-> NoAccount, expected |-> 0,
         newRole |-> AbsentRole, newRoles |-> {}]

\* The first role and its holder are inserted by hand: every operation needs one.
InitAccess ==
  /\ \E x \in Roles, n \in Names, a \in Accounts :
       /\ role = [y \in Roles |->
            IF y = x THEN [name |-> n, permissions |-> {ManageRoles}, version |-> 1]
                     ELSE AbsentRole]
       /\ roleSet = [b \in Accounts |->
            IF b = a THEN [roles |-> {x}, version |-> 1] ELSE AbsentSet]
  /\ audit = [s \in Roles \union Accounts |-> 0]
  /\ request = [r \in Requests |-> Idle]
  /\ held = [r \in Requests |-> {}]

-----------------------------------------------------------------------------
(* A request and its actor.                                                *)

\* resolveAccountRoles: one statement, so one snapshot of the four tables.
RolesOf(a) == {role[x] : x \in roleSet[a].roles}

Access(a) == UNION {d.permissions : d \in RolesOf(a)}

\* What the committed rows give an account, for the history.
Granted(a) == {p \in Permissions : \E x \in roleSet[a].roles : p \in role[x].permissions}

\* createActorContext.
Actor(a, assurance) ==
  [Idle EXCEPT !.phase = "authenticated", !.account = a,
               !.access = Access(a), !.assurance = assurance]

Goto(r, q) ==
  /\ request' = [request EXCEPT ![r] = q]
  /\ UNCHANGED <<rows, held>>

\* The request is answered, with an error when it did not commit, or its process dies:
\* a transaction in progress is rolled back.
End(r) ==
  /\ request' = [request EXCEPT ![r] = Idle]
  /\ held' = [held EXCEPT ![r] = {}]
  /\ UNCHANGED rows

\* authenticateSession accepts the session; actorFor resolves the access of its account.
Authenticate(r, a, assurance) ==
  /\ request[r].phase = "idle"
  /\ request' = [request EXCEPT ![r] = Actor(a, assurance)]
  /\ held' = [held EXCEPT ![r] = Granted(a)]
  /\ UNCHANGED rows

AnyActor(q) == q.assurance = "AAL2"           \* mutant: the permission is not required

\* requirePrivilegedIdentityOperation(actor, 'manage-roles').
Privileged(q) == ManageRoles \in q.access /\ q.assurance = "AAL2"

\* The operations begin; one that is not allowed is refused at once.  The arguments a
\* call does not need yet are chosen where they are first used, and the permissions of the
\* actor, not used again, are forgotten.
Begin(r, q) ==
  /\ request[r].phase = "authenticated"
  /\ Privileged(request[r])
  /\ Goto(r, [q EXCEPT !.access = {}])

CreateRole(r, x) ==
  Begin(r, [request[r] EXCEPT !.phase = "executing", !.op = "create-role", !.role = x])

ReplacePermissions(r, x) ==
  Begin(r, [request[r] EXCEPT !.phase = "reading", !.op = "replace-permissions", !.role = x])

AssignRoles(r, a) ==
  Begin(r, [request[r] EXCEPT !.phase = "reading", !.op = "assign-roles", !.target = a])

\* roleDefinition: a permission that is not in the catalogue is refused.
Canonical(ps) == ps \subseteq Permissions

RoleDefinition(n, ps, version) == [name |-> n, permissions |-> ps, version |-> version]

\* findRoleById and the comparison with expectedVersion: the new row is the one read,
\* but for its permissions, given with the UPDATE, and its version.
ReadRole(r, expected) ==
  LET q == request[r] IN
  /\ q.phase = "reading" /\ q.op = "replace-permissions"
  /\ IF role[q.role].version = expected
     THEN Goto(r, [q EXCEPT !.phase = "executing", !.expected = expected,
                            !.newRole = RoleDefinition(role[q.role].name, {}, expected + 1)])
     ELSE End(r)

\* findRolesByIds: every role must exist.
ReadRoles(r, xs) ==
  LET q == request[r] IN
  /\ q.phase = "reading" /\ q.op = "assign-roles"
  /\ IF \A x \in xs : role[x].version > 0
     THEN Goto(r, [q EXCEPT !.phase = "executing", !.newRoles = xs])
     ELSE End(r)

-----------------------------------------------------------------------------
(* The transactions.                                                       *)

Committing(r, op) == request[r].phase = "committing" /\ request[r].op = op

RoleLocked(x) ==
  \E v \in Requests : request[v].phase = "committing" /\ request[v].role = x

NameLocked(n) ==
  \E v \in Requests : Committing(v, "create-role") /\ request[v].newRole.name = n

SetLocked(a) ==
  \E v \in Requests : request[v].phase = "committing" /\ request[v].target = a

\* Every change is audited; those in progress count.
Changes == MapThenSumSet(LAMBDA s : audit[s], Roles \union Accounts)
             + Cardinality({v \in Requests : request[v].phase = "committing"})

\* Takes the lock and goes on with q, or is refused, which rolls back.
Write(r, accepted, q) ==
  /\ Changes < MaxChanges
  /\ IF accepted THEN Goto(r, [q EXCEPT !.phase = "committing"]) ELSE End(r)

\* INSERT .. ON CONFLICT (normalized_name) DO NOTHING; a second role with the same id
\* is a unique violation.  Both wait for an uncommitted insertion.
InsertRole(r, n, ps) ==
  LET q == request[r] IN
  /\ q.phase = "executing" /\ q.op = "create-role"
  /\ Canonical(ps) /\ ~RoleLocked(q.role) /\ ~NameLocked(n)
  /\ Write(r, role[q.role].version = 0 /\ \A x \in Roles : role[x].name # n,
           [q EXCEPT !.newRole = RoleDefinition(n, ps, 1)])

AnyRoleVersion(q) == role[q.role].version > 0   \* mutant: the UPDATE does not compare

\* UPDATE identity_roles .. WHERE id AND version.
RoleVersionMatches(q) == role[q.role].version = q.expected

\* Then DELETE and INSERT of the permissions.
UpdateRole(r, ps) ==
  LET q == request[r] IN
  /\ q.phase = "executing" /\ q.op = "replace-permissions"
  /\ Canonical(ps) /\ ~RoleLocked(q.role)
  /\ Write(r, RoleVersionMatches(q), [q EXCEPT !.newRole.permissions = ps])

\* For expectedVersion 0 an INSERT .. ON CONFLICT DO NOTHING, else UPDATE .. WHERE
\* version; then DELETE and INSERT of the roles.
ReplaceAccountRoles(r, expected) ==
  LET q == request[r] IN
  /\ q.phase = "executing" /\ q.op = "assign-roles"
  /\ ~SetLocked(q.target)
  /\ Write(r, roleSet[q.target].version = expected, [q EXCEPT !.expected = expected])

\* The role or account the audit record of the request names.
Subject(q) == IF q.op = "assign-roles" THEN q.target ELSE q.role

\* AuditService.record and the INSERT of its store.
Recorded(q) == [audit EXCEPT ![Subject(q)] = @ + 1]

\* The audit record and COMMIT.  From here on other requests see the change.
Commit(r) ==
  LET q == request[r] IN
  /\ q.phase = "committing"
  /\ role' = IF q.op = "assign-roles" THEN role ELSE [role EXCEPT ![q.role] = q.newRole]
  /\ roleSet' = IF q.op # "assign-roles" THEN roleSet
                ELSE [roleSet EXCEPT ![q.target] =
                        [roles |-> q.newRoles, version |-> q.expected + 1]]
  /\ audit' = Recorded(q)
  /\ request' = [request EXCEPT ![r] = Idle]
  /\ held' = [held EXCEPT ![r] = {}]

\* A refusal, a failing statement or audit sink, or a crash.
Abort(r) == request[r].phase \notin {"idle", "delegated"} /\ End(r)

Start(r) ==
  \/ \E a \in Accounts, assurance \in {"AAL1", "AAL2"} : Authenticate(r, a, assurance)
  \/ \E x \in Roles : CreateRole(r, x) \/ ReplacePermissions(r, x)
  \/ \E a \in Accounts : AssignRoles(r, a)

StepOf(r) ==
  \/ \E v \in 1..MaxChanges + 1 : ReadRole(r, v)
  \/ \E xs \in SUBSET Roles : ReadRoles(r, xs)
  \/ \E n \in Names, ps \in Grants : InsertRole(r, n, ps)
  \/ \E ps \in Grants : UpdateRole(r, ps)
  \/ \E v \in 0..MaxChanges : ReplaceAccountRoles(r, v)
  \/ Commit(r)
  \/ Abort(r)

-----------------------------------------------------------------------------
(* Properties.                                                             *)

\* Every variable has its type.
AccessTypeOK ==
  /\ role \in [Roles -> Role]
  /\ roleSet \in [Accounts -> RoleSet]
  /\ audit \in [Roles \union Accounts -> Nat]
  /\ request \in [Requests -> Request]
  /\ held \in [Requests -> SUBSET Permissions]

\* A role or the roles of an account change by one version at a time, only by a request
\* that named the version it replaces, keeping the name of the role, and with exactly one
\* audit record in the same transaction (roles.ts replacePermissions and assignRoles).
RoleHistoryIsLinear ==
  [][/\ \A x \in Roles : role'[x] # role[x] =>
          /\ role'[x].version = role[x].version + 1
          /\ role[x].version > 0 => role'[x].name = role[x].name
          /\ audit'[x] = audit[x] + 1
          /\ \E r \in Requests : request[r].role = x /\ request[r].expected = role[x].version
     /\ \A a \in Accounts : roleSet'[a] # roleSet[a] =>
          /\ roleSet'[a].version = roleSet[a].version + 1
          /\ audit'[a] = audit[a] + 1
          /\ \E r \in Requests : request[r].target = a /\ request[r].expected = roleSet[a].version
    ]_accessVars
=============================================================================
