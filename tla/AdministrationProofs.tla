------------------------ MODULE AdministrationProofs ------------------------
(***************************************************************************)
(* Theorems about Administration, for any number of requests, accounts,    *)
(* roles and products and any texts and clocks.                            *)
(***************************************************************************)
EXTENDS Administration, Sequences, FiniteSetTheorems, TLAPS

(* Decimal texts.                                                          *)

Digits == 0..9

\* The leading zeros of ds that may be dropped.
LeadingZeros(ds) == {i \in 1..Len(ds) - 1 : \A j \in 1..i : ds[j] = 0}

LEMMA WithoutLeadingZerosIs ==
  ASSUME NEW ds \in Seq(Digits)
  PROVE  Catalog!WithoutLeadingZeros(ds) =
           SubSeq(ds, 1 + Cardinality(LeadingZeros(ds)), Len(ds))
BY DEF Catalog!WithoutLeadingZeros, Catalog!Cardinality, Cardinality, LeadingZeros

LEMMA LeadingZerosCount ==
  ASSUME NEW ds \in Seq(Digits)
  PROVE  /\ Cardinality(LeadingZeros(ds)) \in Nat
         /\ ds # <<>> => Cardinality(LeadingZeros(ds)) < Len(ds)
         /\ ds = <<>> => Cardinality(LeadingZeros(ds)) = 0
<1>1. Len(ds) \in Nat /\ (ds = <<>> <=> Len(ds) = 0)
  OBVIOUS
<1>2. LeadingZeros(ds) \subseteq 1..Len(ds) - 1
  BY DEF LeadingZeros
<1>3. IsFiniteSet(1..Len(ds) - 1)
      /\ Cardinality(1..Len(ds) - 1) = IF 1 > Len(ds) - 1 THEN 0 ELSE Len(ds) - 1
  <2>1. 1 \in Int /\ Len(ds) - 1 \in Int
    BY <1>1
  <2> QED
    BY <1>1, <2>1, FS_Interval
<1>4. IsFiniteSet(LeadingZeros(ds))
      /\ Cardinality(LeadingZeros(ds)) <= Cardinality(1..Len(ds) - 1)
  BY <1>2, <1>3, FS_Subset
<1>5. Cardinality(LeadingZeros(ds)) \in Nat
  BY <1>4, FS_CardinalityType
<1> QED
  BY <1>1, <1>3, <1>4, <1>5

\* What follows the leading zeros starts with another digit, or is the last one.
LEMMA FirstDigit ==
  ASSUME NEW ds \in Seq(Digits), NEW k \in Nat, k = Cardinality(LeadingZeros(ds)),
         k + 1 < Len(ds)
  PROVE  ds[k + 1] # 0
<1>1. Len(ds) \in Nat
  OBVIOUS
<1>2. \A j \in 1..k : ds[j] = 0
  <2>1. SUFFICES ASSUME NEW j \in 1..k, ds[j] # 0 PROVE FALSE
    OBVIOUS
  <2>2. LeadingZeros(ds) \subseteq 1..j - 1
    BY <1>1, <2>1 DEF LeadingZeros
  <2>3. IsFiniteSet(1..j - 1) /\ Cardinality(1..j - 1) = j - 1
    <3>1. j \in Int /\ j >= 1 /\ 1 \in Int /\ j - 1 \in Int
      OBVIOUS
    <3>2. IsFiniteSet(1..j - 1)
          /\ Cardinality(1..j - 1) = IF 1 > j - 1 THEN 0 ELSE (j - 1) - 1 + 1
      BY <3>1, FS_Interval
    <3>3. j - 1 = IF 1 > j - 1 THEN 0 ELSE (j - 1) - 1 + 1
      BY <3>1
    <3> QED
      BY <3>2, <3>3
  <2>4. Cardinality(LeadingZeros(ds)) <= j - 1
    BY <2>2, <2>3, FS_Subset
  <2> QED
    BY <2>4
<1>3. SUFFICES ASSUME ds[k + 1] = 0 PROVE FALSE
  OBVIOUS
<1>4. 1..k + 1 \subseteq LeadingZeros(ds)
  <2>1. \A j \in 1..k + 1 : ds[j] = 0
    BY <1>2, <1>3
  <2>2. 1..k + 1 \subseteq 1..Len(ds) - 1
    BY <1>1
  <2>3. \A i \in 1..k + 1 : 1..i \subseteq 1..k + 1
    OBVIOUS
  <2> QED
    BY <2>1, <2>2, <2>3 DEF LeadingZeros
<1>5. LeadingZeros(ds) \subseteq 1..Len(ds) - 1
  BY DEF LeadingZeros
<1>6. IsFiniteSet(1..Len(ds) - 1) /\ IsFiniteSet(1..k + 1) /\ Cardinality(1..k + 1) = k + 1
  <2>1. 1 \in Int /\ Len(ds) - 1 \in Int /\ k + 1 \in Int
    BY <1>1
  <2> QED
    BY <2>1, FS_Interval
<1>7. IsFiniteSet(LeadingZeros(ds))
  BY <1>5, <1>6, FS_Subset
<1>8. k + 1 <= k
  BY <1>4, <1>6, <1>7, FS_Subset
<1> QED
  BY <1>8

\* Dropping leading zeros leaves digits, at least one if there was one, and nothing more
\* to drop.
LEMMA ZerosAreDroppedOnce ==
  ASSUME NEW ds \in Seq(Digits)
  PROVE  LET es == Catalog!WithoutLeadingZeros(ds) IN
         /\ es \in Seq(Digits)
         /\ ds # <<>> => es # <<>>
         /\ Catalog!WithoutLeadingZeros(es) = es
<1> DEFINE k == Cardinality(LeadingZeros(ds))
           es == SubSeq(ds, 1 + k, Len(ds))
<1>1. Len(ds) \in Nat /\ k \in Nat /\ (ds # <<>> => k < Len(ds)) /\ (ds = <<>> => k = 0)
  BY LeadingZerosCount
<1>2. es \in Seq(Digits) /\ Len(es) = Len(ds) - k
      /\ \A i \in 1..Len(ds) - k : es[i] = ds[i + k]
  BY <1>1
<1> HIDE DEF es
<1>3. LeadingZeros(es) = {}
  <2>1. SUFFICES ASSUME NEW i \in LeadingZeros(es) PROVE FALSE
    OBVIOUS
  <2>2. i \in 1..Len(es) - 1 /\ es[1] = 0
    <3>1. i \in 1..Len(es) - 1 /\ \A j \in 1..i : es[j] = 0
      BY <2>1 DEF LeadingZeros
    <3>2. Len(es) \in Nat /\ 1 \in 1..i
      BY <1>1, <1>2, <3>1
    <3> QED
      BY <3>1, <3>2
  <2>3. k + 1 < Len(ds) /\ es[1] = ds[1 + k]
    BY <1>1, <1>2, <2>2
  <2>4. ds[k + 1] # 0
    BY <1>1, <2>3, FirstDigit
  <2> QED
    BY <1>1, <2>2, <2>3, <2>4
<1>4. SubSeq(es, 1 + Cardinality(LeadingZeros(es)), Len(es)) = es
  <2>1. Cardinality(LeadingZeros(es)) = 0
    BY <1>3, FS_EmptySet
  <2> QED
    BY <1>2, <2>1
<1>5. ds # <<>> => es # <<>>
  <2>1. ds # <<>> => Len(es) > 0
    BY <1>1, <1>2
  <2>2. Len(<<>>) = 0
    OBVIOUS
  <2> QED
    BY <2>1, <2>2
<1> QED
  BY <1>2, <1>4, <1>5, WithoutLeadingZerosIs DEF es

-----------------------------------------------------------------------------
(* The inductive invariant.                                                *)

Working == {"reading", "executing", "committing"}

\* A request that has an account but no operation yet: it knows no more than it holds.
Arrived(q, kept) ==
  /\ q.op = "none" /\ q.role = NoRole /\ q.target = NoAccount /\ q.expected = 0
  /\ q.access \subseteq kept

\* A request in an operation: allowed to, and on a role or on an account.
Admitted(q, kept) ==
  /\ ManageRoles \in kept /\ q.assurance = "AAL2"
  /\ q.op \in Operations
  /\ IF q.op = "assign-roles" THEN q.role = NoRole /\ q.target \in Accounts
                              ELSE q.role \in Roles /\ q.target = NoAccount

\* A role is created once: no other has its name.
CreationOK(q) ==
  /\ q.expected = 0
  /\ q.phase = "committing" =>
       /\ role[q.role].version = 0
       /\ q.newRole.version = 1 /\ q.newRole.name \in Names
       /\ \A x \in Roles : role[x].name # q.newRole.name

\* The row a role gets is made of the row read, which is the one it has until the version moves.
ReplacementOK(q) ==
  q.phase # "reading" =>
    LET now == role[q.role] IN
    /\ q.expected > 0 /\ q.newRole.version = q.expected + 1
    /\ now.version >= q.expected
    /\ now.version = q.expected => q.newRole.name = now.name
    /\ q.phase = "committing" => now.version = q.expected

\* Roles are never deleted: those that existed when they were read exist.
AssignmentOK(q) ==
  q.phase # "reading" =>
    /\ \A x \in q.newRoles : role[x].version > 0
    /\ q.phase = "committing" => roleSet[q.target].version = q.expected

RequestOK(q, kept) ==
  /\ q.phase # "idle" => q.account \in Accounts
  /\ q.phase = "authenticated" => Arrived(q, kept)
  /\ q.phase \in Working =>
       /\ Admitted(q, kept)
       /\ q.op = "create-role" => CreationOK(q)
       /\ q.op = "replace-permissions" => ReplacementOK(q)
       /\ q.op = "assign-roles" => AssignmentOK(q)

\* The rows a transaction locks are its own.
Excluded(p, q) ==
  p.phase = "committing" /\ q.phase = "committing" =>
    /\ p.role = q.role => p.role = NoRole
    /\ p.target = q.target => p.target = NoAccount
    /\ p.op = "create-role" /\ q.op = "create-role" => p.newRole.name # q.newRole.name

LocksExclude == \A r, v \in Requests : r # v => Excluded(request[r], request[v])

\* No two roles have the same name (the unique normalized_name of identity_roles).
RoleNamesDiffer ==
  \A x, y \in Roles : x # y /\ role[x].version > 0 => role[x].name # role[y].name

\* An account has no role that does not exist (the foreign key of identity_account_roles).
AssignedRolesExist ==
  \A a \in Accounts : \A x \in roleSet[a].roles : role[x].version > 0

\* A price has both halves or none, and is what money() gives back.
PriceOK(price) ==
  /\ (price.amount = Catalog!NoText) = (price.currency = "null")
  /\ price # Catalog!NoPrice =>
       /\ Catalog!MoneyAccepts(price.amount, 6, FALSE, TRUE)
       /\ Catalog!Normalized(price.amount) = price.amount

\* A call creates a product that is not there yet, or replaces the row it was computed from
\* until the version moves.
CallOK(l) ==
  /\ l.phase # "idle" => l.product \in Products
  /\ l.phase = "creating" => product[l.product].version = 0
  /\ l.phase = "replacing" =>
       /\ l.base.version > 0
       /\ product[l.product].version >= l.base.version
       /\ product[l.product].version = l.base.version => product[l.product] = l.base
  /\ PriceOK(l.base.price)

\* No other call l creates the product of the call k.
Apart(k, l) == k.phase = "creating" /\ l.phase = "creating" => k.product # l.product

\* A request is in the catalogue as long as its call, which it may make.
Linked(c) ==
  /\ call[c].phase # "idle" <=> request[c].phase = "delegated"
  /\ call[c].phase # "idle" => Catalog!ManageProducts \in held[c]

AccessInv ==
  /\ AccessTypeOK
  /\ \A r \in Requests : RequestOK(request[r], held[r])
  /\ LocksExclude /\ RoleNamesDiffer /\ AssignedRolesExist

CatalogInv ==
  /\ Catalog!CatalogTypeOK
  /\ \A c \in Requests : CallOK(call[c])
  /\ \A c, d \in Requests : c # d => Apart(call[c], call[d])
  /\ \A p \in Products : PriceOK(product[p].price)

IndInv == AccessInv /\ CatalogInv /\ \A c \in Requests : Linked(c)

-----------------------------------------------------------------------------
(* Role access.                                                            *)

LEMMA IdleRequest == Idle \in Request /\ Idle.phase = "idle" /\ AbsentRole \in Role
BY DEF Idle, Request, AbsentRole, Role, Operations

\* A request goes from one place to another and changes no row.
LEMMA MoveInv ==
  ASSUME AccessInv, NEW r \in Requests, NEW q \in Request, NEW kept \in SUBSET Permissions,
         request' = [request EXCEPT ![r] = q], held' = [held EXCEPT ![r] = kept],
         UNCHANGED rows, RequestOK(q, kept),
         \A v \in Requests \ {r} : Excluded(request[v], q)
  PROVE  AccessInv'
<1>1. AccessTypeOK /\ UNCHANGED <<role, roleSet, audit>>
  BY DEF AccessInv, rows
<1>2. /\ request' \in [Requests -> Request] /\ held' \in [Requests -> SUBSET Permissions]
      /\ request'[r] = q /\ held'[r] = kept
      /\ \A v \in Requests \ {r} : request'[v] = request[v] /\ held'[v] = held[v]
  BY <1>1 DEF AccessTypeOK
<1>3. AccessTypeOK'
  BY <1>1, <1>2 DEF AccessTypeOK
<1>4. ASSUME NEW v \in Requests PROVE RequestOK(request[v], held[v])'
  <2>1. RequestOK(request'[v], held'[v])
    BY <1>2 DEF AccessInv
  <2> QED
    BY <1>1, <2>1
       DEF RequestOK, Arrived, Admitted, CreationOK, ReplacementOK, AssignmentOK
<1>5. LocksExclude'
  BY <1>2 DEF AccessInv, LocksExclude, Excluded
<1>6. RoleNamesDiffer' /\ AssignedRolesExist'
  BY <1>1 DEF AccessInv, RoleNamesDiffer, AssignedRolesExist
<1> QED
  BY <1>3, <1>4, <1>5, <1>6 DEF AccessInv

LEMMA GotoInv ==
  ASSUME AccessInv, NEW r \in Requests, NEW q \in Request, Goto(r, q), RequestOK(q, held[r]),
         \A v \in Requests \ {r} : Excluded(request[v], q)
  PROVE  AccessInv'
<1>1. held[r] \in SUBSET Permissions /\ held = [held EXCEPT ![r] = held[r]]
  BY DEF AccessInv, AccessTypeOK
<1>2. /\ request' = [request EXCEPT ![r] = q] /\ held' = [held EXCEPT ![r] = held[r]]
      /\ UNCHANGED rows
  BY <1>1 DEF Goto
<1> QED
  BY <1>1, <1>2, MoveInv

LEMMA EndInv ==
  ASSUME AccessInv, NEW r \in Requests, End(r)
  PROVE  AccessInv'
<1>1. RequestOK(Idle, {}) /\ \A v \in Requests \ {r} : Excluded(request[v], Idle)
  BY IdleRequest DEF RequestOK, Working, Excluded
<1> QED
  BY <1>1, IdleRequest, MoveInv DEF End

\* The permissions of an account are in the catalogue of permissions.
LEMMA AccessIsKnown ==
  ASSUME AccessInv, NEW a \in Accounts
  PROVE  Access(a) \in SUBSET Permissions
BY DEF AccessInv, AccessTypeOK, Access, RolesOf, Role, RoleSet

\* The history misses none of the permissions the actor is resolved with.
LEMMA AccessIsGranted ==
  ASSUME AccessInv, NEW a \in Accounts
  PROVE  Granted(a) \in SUBSET Permissions /\ Access(a) \subseteq Granted(a)
BY DEF AccessInv, AccessTypeOK, Access, Granted, RolesOf, Role, RoleSet

LEMMA AuthenticateInv ==
  ASSUME AccessInv, NEW r \in Requests, NEW a \in Accounts,
         NEW assurance \in {"AAL1", "AAL2"}, Authenticate(r, a, assurance)
  PROVE  AccessInv'
<1> DEFINE q == Actor(a, assurance)
<1>1. /\ Access(a) \in SUBSET Permissions /\ Granted(a) \in SUBSET Permissions
      /\ Access(a) \subseteq Granted(a)
  BY AccessIsKnown, AccessIsGranted
<1>2. q \in Request
  BY <1>1 DEF Actor, Idle, Request, AbsentRole, Role
<1>3. RequestOK(q, Granted(a)) /\ \A v \in Requests \ {r} : Excluded(request[v], q)
  BY <1>1 DEF Actor, Idle, RequestOK, Arrived, Working, Excluded
<1>4. /\ request' = [request EXCEPT ![r] = q] /\ held' = [held EXCEPT ![r] = Granted(a)]
      /\ UNCHANGED rows
  BY DEF Authenticate
<1> HIDE DEF q
<1> QED
  BY <1>1, <1>2, <1>3, <1>4, MoveInv

\* A request begins an operation with q, made of its record and of what the operation is on.
LEMMA BeginInv ==
  ASSUME AccessInv, NEW r \in Requests, NEW q \in Request, Begin(r, q),
         q.phase \in {"executing", "reading"}, q.account = request[r].account,
         q.assurance = request[r].assurance, q.expected = 0,
         q.op \in Operations, q.op # "create-role" => q.phase = "reading",
         IF q.op = "assign-roles" THEN q.role = NoRole /\ q.target \in Accounts
                                  ELSE q.role \in Roles /\ q.target = NoAccount
  PROVE  AccessInv'
<1> DEFINE n == [q EXCEPT !.access = {}]
<1>1. /\ request[r].phase = "authenticated" /\ Privileged(request[r]) /\ Goto(r, n)
      /\ RequestOK(request[r], held[r])
  BY DEF Begin, AccessInv
<1>2. n \in Request
  BY DEF Request
<1>3. /\ n.phase = q.phase /\ n.account = q.account /\ n.assurance = q.assurance
      /\ n.expected = q.expected /\ n.op = q.op /\ n.role = q.role /\ n.target = q.target
  BY DEF Request
<1> HIDE DEF n
<1>4. Admitted(n, held[r]) /\ n.account \in Accounts
  BY <1>1, <1>3 DEF RequestOK, Arrived, Privileged, Admitted
<1>5. RequestOK(n, held[r])
  BY <1>1, <1>3, <1>4 DEF RequestOK, Working, CreationOK, ReplacementOK, AssignmentOK
<1>6. \A v \in Requests \ {r} : Excluded(request[v], n)
  BY <1>3 DEF Excluded
<1> QED
  BY <1>1, <1>2, <1>5, <1>6, GotoInv

\* What is known of a request that has an account but no operation.
LEMMA ArrivedFacts ==
  ASSUME AccessInv, NEW r \in Requests, request[r].phase = "authenticated"
  PROVE  request[r] \in Request /\ Arrived(request[r], held[r])
BY DEF AccessInv, AccessTypeOK, RequestOK

LEMMA BeginsInv ==
  ASSUME AccessInv, NEW r \in Requests,
         \/ \E x \in Roles : CreateRole(r, x) \/ ReplacePermissions(r, x)
         \/ \E a \in Accounts : AssignRoles(r, a)
  PROVE  AccessInv'
<1>1. request[r] \in Request /\ Arrived(request[r], held[r])
  BY ArrivedFacts DEF CreateRole, ReplacePermissions, AssignRoles, Begin
<1>2. ASSUME NEW x \in Roles, CreateRole(r, x) PROVE AccessInv'
  <2> DEFINE q == [request[r] EXCEPT !.phase = "executing", !.op = "create-role", !.role = x]
  <2>1. /\ q \in Request /\ q.phase = "executing" /\ q.account = request[r].account
        /\ q.assurance = request[r].assurance /\ q.expected = 0 /\ q.op = "create-role"
        /\ q.role = x /\ q.target = NoAccount
    BY <1>1 DEF Request, Arrived, Operations
  <2>2. Begin(r, q)
    BY <1>2 DEF CreateRole
  <2> HIDE DEF q
  <2> QED
    BY <2>1, <2>2, BeginInv DEF Operations
<1>3. ASSUME NEW x \in Roles, ReplacePermissions(r, x) PROVE AccessInv'
  <2> DEFINE q == [request[r] EXCEPT !.phase = "reading", !.op = "replace-permissions",
                                     !.role = x]
  <2>1. /\ q \in Request /\ q.phase = "reading" /\ q.account = request[r].account
        /\ q.assurance = request[r].assurance /\ q.expected = 0
        /\ q.op = "replace-permissions" /\ q.role = x /\ q.target = NoAccount
    BY <1>1 DEF Request, Arrived, Operations
  <2>2. Begin(r, q)
    BY <1>3 DEF ReplacePermissions
  <2> HIDE DEF q
  <2> QED
    BY <2>1, <2>2, BeginInv DEF Operations
<1>4. ASSUME NEW a \in Accounts, AssignRoles(r, a) PROVE AccessInv'
  <2> DEFINE q == [request[r] EXCEPT !.phase = "reading", !.op = "assign-roles", !.target = a]
  <2>1. /\ q \in Request /\ q.phase = "reading" /\ q.account = request[r].account
        /\ q.assurance = request[r].assurance /\ q.expected = 0 /\ q.op = "assign-roles"
        /\ q.role = NoRole /\ q.target = a
    BY <1>1 DEF Request, Arrived, Operations
  <2>2. Begin(r, q)
    BY <1>4 DEF AssignRoles
  <2> HIDE DEF q
  <2> QED
    BY <2>1, <2>2, BeginInv DEF Operations
<1> QED
  BY <1>2, <1>3, <1>4

\* What is known of a request in an operation.
LEMMA WorkingFacts ==
  ASSUME AccessInv, NEW r \in Requests, request[r].phase \in Working
  PROVE  /\ request[r] \in Request /\ request[r].account \in Accounts
         /\ RequestOK(request[r], held[r]) /\ Admitted(request[r], held[r])
BY DEF AccessInv, AccessTypeOK, RequestOK, Working

LEMMA ReadRoleInv ==
  ASSUME AccessInv, NEW r \in Requests, NEW v \in 1..MaxChanges + 1, ReadRole(r, v)
  PROVE  AccessInv'
<1> DEFINE d == RoleDefinition(role[request[r].role].name, {}, v + 1)
           q == [request[r] EXCEPT !.phase = "executing", !.expected = v, !.newRole = d]
<1>1. /\ request[r].phase = "reading" /\ request[r].op = "replace-permissions"
      /\ IF role[request[r].role].version = v THEN Goto(r, q) ELSE End(r)
  BY DEF ReadRole
<1>2. /\ request[r] \in Request /\ request[r].account \in Accounts
      /\ RequestOK(request[r], held[r]) /\ Admitted(request[r], held[r])
  BY <1>1, WorkingFacts DEF Working
<1>3. CASE role[request[r].role].version = v
  <2>1. request[r].role \in Roles /\ v \in Nat \ {0} /\ v + 1 \in Nat
    BY <1>1, <1>2, RoleAccessAssumption DEF Admitted
  <2>2. d \in Role /\ d.version = v + 1 /\ d.name = role[request[r].role].name
    BY <2>1 DEF RoleDefinition, Role, AccessInv, AccessTypeOK
  <2> HIDE DEF d
  <2>3. /\ q \in Request /\ q.phase = "executing" /\ q.op = "replace-permissions"
        /\ q.expected = v /\ q.newRole = d /\ q.account = request[r].account
        /\ q.assurance = request[r].assurance /\ q.role = request[r].role
        /\ q.target = request[r].target
    BY <1>1, <1>2, <2>1, <2>2 DEF Request
  <2> HIDE DEF q
  <2>4. Admitted(q, held[r]) /\ ReplacementOK(q)
    BY <1>1, <1>2, <1>3, <2>1, <2>2, <2>3 DEF Admitted, ReplacementOK
  <2>5. RequestOK(q, held[r]) /\ \A u \in Requests \ {r} : Excluded(request[u], q)
    BY <1>2, <2>3, <2>4 DEF RequestOK, Excluded
  <2> QED
    BY <1>1, <1>3, <2>3, <2>5, GotoInv
<1> QED
  BY <1>1, <1>3, EndInv

LEMMA ReadRolesInv ==
  ASSUME AccessInv, NEW r \in Requests, NEW xs \in SUBSET Roles, ReadRoles(r, xs)
  PROVE  AccessInv'
<1> DEFINE q == [request[r] EXCEPT !.phase = "executing", !.newRoles = xs]
<1>1. /\ request[r].phase = "reading" /\ request[r].op = "assign-roles"
      /\ IF \A x \in xs : role[x].version > 0 THEN Goto(r, q) ELSE End(r)
  BY DEF ReadRoles
<1>2. /\ request[r] \in Request /\ request[r].account \in Accounts
      /\ RequestOK(request[r], held[r]) /\ Admitted(request[r], held[r])
  BY <1>1, WorkingFacts DEF Working
<1>3. CASE \A x \in xs : role[x].version > 0
  <2>1. /\ q \in Request /\ q.phase = "executing" /\ q.op = "assign-roles" /\ q.newRoles = xs
        /\ q.account = request[r].account /\ q.assurance = request[r].assurance
        /\ q.role = request[r].role /\ q.target = request[r].target
    BY <1>1, <1>2 DEF Request
  <2> HIDE DEF q
  <2>2. Admitted(q, held[r]) /\ AssignmentOK(q)
    BY <1>1, <1>2, <1>3, <2>1 DEF Admitted, AssignmentOK
  <2>3. RequestOK(q, held[r]) /\ \A u \in Requests \ {r} : Excluded(request[u], q)
    BY <1>2, <2>1, <2>2 DEF RequestOK, Excluded
  <2> QED
    BY <1>1, <1>3, <2>1, <2>3, GotoInv
<1> QED
  BY <1>1, <1>3, EndInv

\* A statement that takes its locks takes the request on with q, or ends it.
LEMMA WriteInv ==
  ASSUME AccessInv, NEW r \in Requests, NEW q \in Request, NEW accepted \in BOOLEAN,
         Write(r, accepted, q), q.account \in Accounts, Admitted(q, held[r]),
         NEW n, n = [q EXCEPT !.phase = "committing"],
         accepted =>
           /\ n.op = "create-role" => CreationOK(n)
           /\ n.op = "replace-permissions" => ReplacementOK(n)
           /\ n.op = "assign-roles" => AssignmentOK(n),
         \A v \in Requests : Excluded(request[v], n)
  PROVE  AccessInv'
<1>1. IF accepted THEN Goto(r, n) ELSE End(r)
  BY DEF Write
<1>2. /\ n \in Request /\ n.phase = "committing" /\ n.account = q.account /\ n.op = q.op
      /\ n.assurance = q.assurance /\ n.role = q.role /\ n.target = q.target
  BY DEF Request
<1>3. CASE accepted
  <2>1. Admitted(n, held[r])
    BY <1>2 DEF Admitted
  <2>2. RequestOK(n, held[r])
    BY <1>2, <1>3, <2>1 DEF RequestOK
  <2> QED
    BY <1>1, <1>2, <1>3, <2>2, GotoInv
<1> QED
  BY <1>1, <1>3, EndInv

LEMMA InsertRoleInv ==
  ASSUME AccessInv, NEW r \in Requests, NEW m \in Names, NEW ps \in Grants,
         InsertRole(r, m, ps)
  PROVE  AccessInv'
<1> DEFINE d == RoleDefinition(m, ps, 1)
           q == [request[r] EXCEPT !.newRole = d]
           n == [q EXCEPT !.phase = "committing"]
           accepted == role[request[r].role].version = 0
                         /\ \A x \in Roles : role[x].name # m
<1>1. /\ request[r].phase = "executing" /\ request[r].op = "create-role" /\ Canonical(ps)
      /\ ~RoleLocked(request[r].role) /\ ~NameLocked(m) /\ Write(r, accepted, q)
  BY DEF InsertRole
<1>2. /\ request[r] \in Request /\ request[r].account \in Accounts
      /\ RequestOK(request[r], held[r]) /\ Admitted(request[r], held[r])
  BY <1>1, WorkingFacts DEF Working
<1>3. d \in Role /\ d.version = 1 /\ d.name = m
  BY <1>1 DEF RoleDefinition, Role, Canonical
<1> HIDE DEF d
<1>4. /\ q \in Request /\ q.account \in Accounts /\ q.op = "create-role"
      /\ q.assurance = request[r].assurance /\ q.role = request[r].role
      /\ q.target = request[r].target /\ q.expected = request[r].expected /\ q.newRole = d
  BY <1>1, <1>2, <1>3 DEF Request
<1> HIDE DEF q
<1>5. /\ n.phase = "committing" /\ n.op = "create-role" /\ n.role = request[r].role
      /\ n.target = request[r].target /\ n.expected = request[r].expected /\ n.newRole = d
  BY <1>4 DEF Request
<1>6. Admitted(q, held[r]) /\ n.role \in Roles /\ n.target = NoAccount /\ n.expected = 0
  BY <1>1, <1>2, <1>4, <1>5 DEF Admitted, RequestOK, Working, CreationOK
<1>7. accepted => CreationOK(n)
  BY <1>3, <1>5, <1>6 DEF CreationOK
<1>8. \A v \in Requests : Excluded(request[v], n)
  BY <1>1, <1>3, <1>5, <1>6 DEF Excluded, RoleLocked, NameLocked, Committing
<1>9. accepted \in BOOLEAN
  OBVIOUS
<1> HIDE DEF accepted, n
<1>10. n = [q EXCEPT !.phase = "committing"]
  BY DEF n
<1> QED
  BY <1>1, <1>4, <1>5, <1>6, <1>7, <1>8, <1>9, <1>10, WriteInv

LEMMA UpdateRoleInv ==
  ASSUME AccessInv, NEW r \in Requests, NEW ps \in Grants, UpdateRole(r, ps)
  PROVE  AccessInv'
<1> DEFINE d == [request[r].newRole EXCEPT !.permissions = ps]
           q == [request[r] EXCEPT !.newRole.permissions = ps]
           n == [q EXCEPT !.phase = "committing"]
           accepted == RoleVersionMatches(request[r])
<1>1. /\ request[r].phase = "executing" /\ request[r].op = "replace-permissions"
      /\ Canonical(ps) /\ ~RoleLocked(request[r].role) /\ Write(r, accepted, q)
  BY DEF UpdateRole
<1>2. /\ request[r] \in Request /\ request[r].account \in Accounts
      /\ RequestOK(request[r], held[r]) /\ Admitted(request[r], held[r])
  BY <1>1, WorkingFacts DEF Working
<1>3. /\ d \in Role /\ d.version = request[r].newRole.version
      /\ d.name = request[r].newRole.name
  BY <1>1, <1>2 DEF Request, Role, Canonical
<1>4. /\ q \in Request /\ q.account \in Accounts /\ q.op = "replace-permissions"
      /\ q.assurance = request[r].assurance /\ q.role = request[r].role
      /\ q.target = request[r].target /\ q.expected = request[r].expected /\ q.newRole = d
  BY <1>1, <1>2, <1>3 DEF Request
<1> HIDE DEF d, q
<1>5. /\ n.phase = "committing" /\ n.op = "replace-permissions" /\ n.role = request[r].role
      /\ n.target = request[r].target /\ n.expected = request[r].expected /\ n.newRole = d
  BY <1>4 DEF Request
<1>6. Admitted(q, held[r]) /\ n.role \in Roles /\ n.target = NoAccount
  BY <1>1, <1>2, <1>4, <1>5 DEF Admitted
<1>7. accepted => ReplacementOK(n)
  BY <1>1, <1>2, <1>3, <1>5 DEF RequestOK, Working, ReplacementOK, RoleVersionMatches
<1>8. \A v \in Requests : Excluded(request[v], n)
  BY <1>1, <1>5, <1>6 DEF Excluded, RoleLocked
<1>9. accepted \in BOOLEAN
  BY DEF RoleVersionMatches
<1> HIDE DEF accepted, n
<1>10. n = [q EXCEPT !.phase = "committing"]
  BY DEF n
<1> QED
  BY <1>1, <1>4, <1>5, <1>6, <1>7, <1>8, <1>9, <1>10, WriteInv

LEMMA ReplaceAccountRolesInv ==
  ASSUME AccessInv, NEW r \in Requests, NEW v \in 0..MaxChanges, ReplaceAccountRoles(r, v)
  PROVE  AccessInv'
<1> DEFINE q == [request[r] EXCEPT !.expected = v]
           n == [q EXCEPT !.phase = "committing"]
           accepted == roleSet[request[r].target].version = v
<1>1. /\ request[r].phase = "executing" /\ request[r].op = "assign-roles"
      /\ ~SetLocked(request[r].target) /\ Write(r, accepted, q)
  BY DEF ReplaceAccountRoles
<1>2. /\ request[r] \in Request /\ request[r].account \in Accounts
      /\ RequestOK(request[r], held[r]) /\ Admitted(request[r], held[r])
  BY <1>1, WorkingFacts DEF Working
<1>3. v \in Nat
  BY RoleAccessAssumption
<1>4. /\ q \in Request /\ q.account \in Accounts /\ q.op = "assign-roles"
      /\ q.assurance = request[r].assurance /\ q.role = request[r].role
      /\ q.target = request[r].target /\ q.expected = v
      /\ q.newRoles = request[r].newRoles
  BY <1>1, <1>2, <1>3 DEF Request
<1> HIDE DEF q
<1>5. /\ n.phase = "committing" /\ n.op = "assign-roles" /\ n.role = request[r].role
      /\ n.target = request[r].target /\ n.expected = v /\ n.newRoles = request[r].newRoles
  BY <1>4 DEF Request
<1>6. Admitted(q, held[r]) /\ n.role = NoRole
  BY <1>1, <1>2, <1>4, <1>5 DEF Admitted
<1>7. accepted => AssignmentOK(n)
  BY <1>1, <1>2, <1>5 DEF RequestOK, Working, AssignmentOK
<1>8. \A u \in Requests : Excluded(request[u], n)
  BY <1>1, <1>5, <1>6 DEF Excluded, SetLocked
<1>9. accepted \in BOOLEAN
  OBVIOUS
<1> HIDE DEF accepted, n
<1>10. n = [q EXCEPT !.phase = "committing"]
  BY DEF n
<1> QED
  BY <1>1, <1>4, <1>5, <1>6, <1>7, <1>8, <1>9, <1>10, WriteInv

\* What a transaction that commits does to the rows: one row changes, by one version.
LEMMA Committed ==
  ASSUME AccessInv, NEW r \in Requests, Commit(r)
  PROVE  LET q == request[r] IN
         /\ q.phase = "committing" /\ q \in Request /\ RequestOK(q, held[r])
         /\ Admitted(q, held[r])
         /\ q.op = "assign-roles" =>
              /\ role' = role /\ q.target \in Accounts /\ q.role = NoRole
              /\ roleSet' = [roleSet EXCEPT ![q.target] =
                               [roles |-> q.newRoles, version |-> q.expected + 1]]
         /\ q.op # "assign-roles" =>
              /\ roleSet' = roleSet /\ q.role \in Roles /\ q.target = NoAccount
              /\ role' = [role EXCEPT ![q.role] = q.newRole]
              /\ q.newRole.version = role[q.role].version + 1
              /\ role[q.role].version = q.expected
              /\ q.op = "replace-permissions" =>
                   q.newRole.name = role[q.role].name /\ role[q.role].version > 0
<1>1. /\ request[r].phase = "committing" /\ request[r] \in Request
      /\ RequestOK(request[r], held[r]) /\ Admitted(request[r], held[r])
  BY WorkingFacts DEF Working, Commit
<1>2. CASE request[r].op = "assign-roles"
  BY <1>1, <1>2 DEF Commit, Admitted
<1>3. CASE request[r].op # "assign-roles"
  <2>1. /\ roleSet' = roleSet /\ role' = [role EXCEPT ![request[r].role] = request[r].newRole]
        /\ request[r].role \in Roles /\ request[r].target = NoAccount
        /\ request[r].op \in {"create-role", "replace-permissions"}
    BY <1>1, <1>3 DEF Commit, Admitted, Operations
  <2> QED
    BY <1>1, <1>3, <2>1
       DEF RequestOK, Working, CreationOK, ReplacementOK, AccessInv, AccessTypeOK, Role
<1> QED
  BY <1>1, <1>2, <1>3

\* A commit leaves the other requests, and the history of them, as they were.
LEMMA CommitKeeps ==
  ASSUME AccessInv, NEW r \in Requests, Commit(r)
  PROVE  /\ AccessTypeOK'
         /\ request'[r] = Idle
         /\ \A v \in Requests \ {r} : request'[v] = request[v] /\ held'[v] = held[v]
<1>1. role' \in [Roles -> Role] /\ roleSet' \in [Accounts -> RoleSet]
  <2> DEFINE q == request[r]
  <2>1. /\ q.newRole \in Role /\ [roles |-> q.newRoles, version |-> q.expected + 1] \in RoleSet
        /\ role \in [Roles -> Role] /\ roleSet \in [Accounts -> RoleSet]
    BY Committed DEF AccessInv, AccessTypeOK, Request, RoleSet
  <2>2. \/ role' = role /\ roleSet' = [roleSet EXCEPT ![q.target] =
                            [roles |-> q.newRoles, version |-> q.expected + 1]]
        \/ roleSet' = roleSet /\ role' = [role EXCEPT ![q.role] = q.newRole]
    BY Committed
  <2> HIDE DEF q
  <2> QED
    BY <2>1, <2>2
<1>2. audit' \in [Roles \union Accounts -> Nat]
  <2>1. Subject(request[r]) \in Roles \union Accounts
    BY Committed DEF Subject
  <2> QED
    BY <2>1 DEF Commit, Recorded, AccessInv, AccessTypeOK
<1>3. /\ request' \in [Requests -> Request] /\ request'[r] = Idle
      /\ \A v \in Requests \ {r} : request'[v] = request[v]
  BY IdleRequest DEF Commit, AccessInv, AccessTypeOK
<1>4. /\ held' \in [Requests -> SUBSET Permissions]
      /\ \A v \in Requests \ {r} : held'[v] = held[v]
  BY DEF Commit, AccessInv, AccessTypeOK
<1> QED
  BY <1>1, <1>2, <1>3, <1>4 DEF AccessTypeOK

\* What another request knows of the rows remains so.
LEMMA OthersUndisturbed ==
  ASSUME AccessInv, NEW r \in Requests, Commit(r), NEW v \in Requests \ {r},
         NEW q, q = request[v], NEW kept, kept = held[v]
  PROVE  RequestOK(q, kept)'
<1>1. RequestOK(q, kept) /\ q \in Request
  BY DEF AccessInv, AccessTypeOK
<1>2. Excluded(q, request[r])
  BY DEF AccessInv, LocksExclude
<1>3. \A x \in Roles : role[x] \in Role
  BY DEF AccessInv, AccessTypeOK
<1>4. SUFFICES ASSUME q.phase \in Working
               PROVE  /\ Admitted(q, kept)'
                      /\ (q.op = "create-role" => CreationOK(q))'
                      /\ (q.op = "replace-permissions" => ReplacementOK(q))'
                      /\ (q.op = "assign-roles" => AssignmentOK(q))'
  BY <1>1 DEF RequestOK, Arrived, Working
<1>5. Admitted(q, kept)
  BY <1>1, <1>4 DEF RequestOK
<1>6. CASE request[r].op = "assign-roles"
  <2>1. /\ role' = role /\ request[r].phase = "committing"
        /\ \A a \in Accounts \ {request[r].target} : roleSet'[a] = roleSet[a]
    BY <1>6, Committed DEF AccessInv, AccessTypeOK
  <2>2. ASSUME q.phase = "committing", q.op = "assign-roles"
        PROVE  roleSet'[q.target] = roleSet[q.target]
    BY <1>2, <1>5, <2>1, <2>2, RoleAccessAssumption DEF Excluded, Admitted
  <2> QED
    BY <1>1, <1>4, <1>5, <2>1, <2>2
       DEF RequestOK, Admitted, CreationOK, ReplacementOK, AssignmentOK
<1>7. CASE request[r].op # "assign-roles"
  <2> DEFINE m == request[r].role
             d == request[r].newRole
  <2>1. /\ roleSet' = roleSet /\ m \in Roles /\ role'[m] = d /\ request[r].phase = "committing"
        /\ d.version = role[m].version + 1 /\ role[m].version \in Nat
        /\ \A x \in Roles \ {m} : role'[x] = role[x]
    BY <1>3, <1>7, Committed DEF AccessInv, AccessTypeOK, Role
  <2>2. request[r].op = "create-role" => CreationOK(request[r])
    BY <2>1, Committed DEF RequestOK, Working
  <2>3. request[r].op # "create-role" => d.name = role[m].name
    BY <1>7, Committed DEF Admitted, Operations
  <2> HIDE DEF m, d
  <2>4. \A x \in Roles : role[x].version \in Nat /\ role'[x].version >= role[x].version
                           /\ (role[x].version > 0 => role'[x].version > 0)
    BY <1>3, <2>1 DEF Role
  <2>5. ASSUME q.op = "create-role", q.phase = "committing"
        PROVE  /\ q.role # m
               /\ \A x \in Roles : role'[x].name # q.newRole.name
    <3>1. CreationOK(q) /\ q.role \in Roles
      BY <1>1, <1>4, <1>5, <2>5 DEF RequestOK, Admitted
    <3>2. q.role # m
      BY <1>2, <2>1, <2>5, <3>1, RoleAccessAssumption DEF Excluded, m
    <3>3. d.name # q.newRole.name
      BY <1>2, <2>1, <2>3, <2>5, <3>1 DEF Excluded, CreationOK, d
    <3> QED
      BY <2>1, <2>5, <3>1, <3>2, <3>3 DEF CreationOK
  <2>6. q.op = "create-role" => CreationOK(q)'
    BY <1>1, <1>4, <1>5, <2>1, <2>5 DEF RequestOK, Admitted, CreationOK
  <2>7. ASSUME q.op = "replace-permissions" PROVE ReplacementOK(q)'
    <3>1. ReplacementOK(q) /\ q.role \in Roles
      BY <1>1, <1>4, <1>5, <2>7 DEF RequestOK, Admitted
    <3>2. CASE q.role # m
      BY <2>1, <3>1, <3>2 DEF ReplacementOK
    <3>3. CASE q.role = m
      <4>1. q.phase # "committing"
        BY <1>2, <2>1, <3>1, <3>3, RoleAccessAssumption DEF Excluded, m
      <4>2. q.expected \in Nat
        BY <1>1 DEF Request
      <4> QED
        BY <2>1, <3>1, <3>3, <4>1, <4>2 DEF ReplacementOK
    <3> QED
      BY <3>2, <3>3
  <2>8. ASSUME q.op = "assign-roles" PROVE AssignmentOK(q)'
    <3>1. AssignmentOK(q) /\ q.newRoles \subseteq Roles
      BY <1>1, <1>4, <2>8 DEF RequestOK, Request
    <3> QED
      BY <2>1, <2>4, <3>1 DEF AssignmentOK
  <2> QED
    BY <1>5, <2>6, <2>7, <2>8 DEF Admitted
<1> QED
  BY <1>6, <1>7

LEMMA CommitInv ==
  ASSUME AccessInv, NEW r \in Requests, Commit(r)
  PROVE  AccessInv'
<1> DEFINE q == request[r]
<1>1. /\ AccessTypeOK' /\ request'[r] = Idle
      /\ \A v \in Requests \ {r} : request'[v] = request[v] /\ held'[v] = held[v]
  BY CommitKeeps
<1>2. ASSUME NEW v \in Requests PROVE RequestOK(request[v], held[v])'
  <2>1. CASE v = r
    BY <1>1, <2>1, IdleRequest DEF RequestOK, Working
  <2>2. CASE v # r
    <3>1. PICK l, kept : l = request[v] /\ kept = held[v]
      OBVIOUS
    <3>2. RequestOK(l, kept)'
      BY <2>2, <3>1, OthersUndisturbed
    <3> QED
      BY <1>1, <2>2, <3>1, <3>2
  <2> QED
    BY <2>1, <2>2
<1>3. LocksExclude'
  BY <1>1, IdleRequest DEF AccessInv, LocksExclude, Excluded
<1>4. \A x \in Roles : role[x].version \in Nat /\ (role[x].version > 0 => role'[x].version > 0)
  <2>1. \A x \in Roles : role[x].version \in Nat
    BY DEF AccessInv, AccessTypeOK, Role
  <2>2. CASE q.op = "assign-roles"
    BY <2>1, <2>2, Committed
  <2>3. CASE q.op # "assign-roles"
    <3>1. /\ role' = [role EXCEPT ![q.role] = q.newRole] /\ q.role \in Roles
          /\ q.newRole.version = role[q.role].version + 1
      BY <2>3, Committed
    <3> HIDE DEF q
    <3> QED
      BY <2>1, <3>1 DEF AccessInv, AccessTypeOK
  <2> QED
    BY <2>2, <2>3
<1>5. RoleNamesDiffer'
  <2>1. RoleNamesDiffer /\ \A x \in Roles : role[x].version \in Nat
    BY DEF AccessInv, AccessTypeOK, Role
  <2>2. CASE q.op = "assign-roles"
    BY <2>1, <2>2, Committed DEF RoleNamesDiffer
  <2>3. CASE q.op = "create-role"
    <3>1. role' = [role EXCEPT ![q.role] = q.newRole] /\ q.role \in Roles /\ CreationOK(q)
          /\ q.phase = "committing"
      BY <2>3, Committed DEF RequestOK, Working
    <3> HIDE DEF q
    <3> QED
      BY <2>1, <3>1 DEF RoleNamesDiffer, CreationOK, AccessInv, AccessTypeOK
  <2>4. CASE q.op = "replace-permissions"
    <3>1. /\ role' = [role EXCEPT ![q.role] = q.newRole] /\ q.role \in Roles
          /\ q.newRole.name = role[q.role].name /\ role[q.role].version > 0
      BY <2>4, Committed
    <3> HIDE DEF q
    <3>2. \A x \in Roles : /\ role'[x].name = role[x].name
                           /\ role'[x].version > 0 => role[x].version > 0
      BY <2>1, <3>1 DEF AccessInv, AccessTypeOK
    <3> QED
      BY <2>1, <3>2 DEF RoleNamesDiffer
  <2> QED
    BY <2>2, <2>3, <2>4, Committed DEF Admitted, Operations
<1>6. AssignedRolesExist'
  <2>1. AssignedRolesExist /\ roleSet \in [Accounts -> RoleSet]
    BY DEF AccessInv, AccessTypeOK
  <2>2. \A a \in Accounts : roleSet[a].roles \subseteq Roles
    BY <2>1 DEF RoleSet
  <2>3. CASE q.op = "assign-roles"
    <3>1. /\ role' = role /\ q.target \in Accounts /\ AssignmentOK(q)
          /\ roleSet' = [roleSet EXCEPT ![q.target] =
                           [roles |-> q.newRoles, version |-> q.expected + 1]]
          /\ q.phase = "committing"
      BY <2>3, Committed DEF RequestOK, Working
    <3> HIDE DEF q
    <3> QED
      BY <2>1, <3>1 DEF AssignedRolesExist, AssignmentOK
  <2>4. CASE q.op # "assign-roles"
    BY <1>4, <2>1, <2>2, <2>4, Committed DEF AssignedRolesExist
  <2> QED
    BY <2>3, <2>4
<1> QED
  BY <1>1, <1>2, <1>3, <1>5, <1>6 DEF AccessInv

LEMMA RolesInv ==
  ASSUME AccessInv, NEW r \in Requests, Start(r) \/ StepOf(r)
  PROVE  AccessInv'
BY AuthenticateInv, BeginsInv, ReadRoleInv, ReadRolesInv, InsertRoleInv, UpdateRoleInv,
   ReplaceAccountRolesInv, CommitInv, EndInv
   DEF Start, StepOf, Abort

-----------------------------------------------------------------------------
(* The catalogue.                                                          *)

LEMMA NoTexts ==
  /\ Catalog!NoText \in Catalog!Text /\ Catalog!NoText.whole = <<>>
  /\ Catalog!NoPrice \in Catalog!Price /\ PriceOK(Catalog!NoPrice)
<1>1. Catalog!NoText \in Catalog!Text /\ Catalog!NoText.whole = <<>>
  BY DEF Catalog!NoText, Catalog!Text
<1> QED
  BY <1>1 DEF Catalog!NoPrice, Catalog!Price, PriceOK

LEMMA AbsentCall ==
  /\ Catalog!AbsentProduct \in Catalog!Product /\ Catalog!NoCall \in Catalog!Call
  /\ Catalog!AbsentProduct.version = 0 /\ CallOK(Catalog!NoCall)
  /\ Catalog!NoCall.phase = "idle" /\ Catalog!NoCall.base = Catalog!AbsentProduct
  /\ PriceOK(Catalog!AbsentProduct.price)
<1>1. /\ Catalog!AbsentProduct \in Catalog!Product /\ Catalog!AbsentProduct.version = 0
      /\ Catalog!AbsentProduct.price = Catalog!NoPrice
  BY NoTexts DEF Catalog!AbsentProduct, Catalog!Product
<1>2. /\ Catalog!NoCall \in Catalog!Call /\ Catalog!NoCall.phase = "idle"
      /\ Catalog!NoCall.base = Catalog!AbsentProduct
  BY <1>1 DEF Catalog!NoCall, Catalog!Call
<1> QED
  BY <1>1, <1>2, NoTexts DEF CallOK

\* A text that money() takes becomes one that it gives back unchanged.
LEMMA NormalIsNormal ==
  ASSUME NEW t \in Catalog!Text, NEW isCode \in BOOLEAN,
         Catalog!MoneyAccepts(t, 6, FALSE, isCode)
  PROVE  LET n == Catalog!Normalized(t) IN
         /\ n \in Catalog!Text /\ n # Catalog!NoText
         /\ Catalog!MoneyAccepts(n, 6, FALSE, TRUE)
         /\ Catalog!Normalized(n) = n
<1> DEFINE n == Catalog!Normalized(t)
           es == Catalog!WithoutLeadingZeros(t.whole)
<1>1. /\ t.whole \in Seq(Digits) /\ t.fraction \in Seq(Digits) /\ t.whole # <<>>
      /\ t.negative = FALSE /\ Len(t.fraction) <= 6
  BY DEF Catalog!Text, Digits, Catalog!MoneyAccepts, Catalog!ParseAccepts
<1>2. es \in Seq(Digits) /\ es # <<>> /\ Catalog!WithoutLeadingZeros(es) = es
  BY <1>1, ZerosAreDroppedOnce
<1> HIDE DEF es
<1>3. n = [negative |-> FALSE, whole |-> es, fraction |-> t.fraction]
  <2>1. n = [t EXCEPT !.negative = FALSE, !.whole = es]
    BY <1>1 DEF Catalog!Normalized, es
  <2> QED
    BY <1>1, <2>1 DEF Catalog!Text
<1> HIDE DEF n
<1>4. Catalog!Normalized(n) = [n EXCEPT !.negative = FALSE, !.whole = es]
  BY <1>2, <1>3 DEF Catalog!Normalized
<1>5. n \in Catalog!Text
  BY <1>1, <1>2, <1>3 DEF Catalog!Text, Digits
<1>6. n.whole = es /\ n.negative = FALSE /\ n.fraction = t.fraction
  BY <1>3
<1>7. n # Catalog!NoText
  BY <1>2, <1>6, NoTexts
<1>8. Catalog!MoneyAccepts(n, 6, FALSE, TRUE)
  BY <1>1, <1>2, <1>6 DEF Catalog!MoneyAccepts, Catalog!ParseAccepts
<1>9. Catalog!Normalized(n) = n
  BY <1>3, <1>4
<1> QED
  BY <1>5, <1>7, <1>8, <1>9 DEF n

\* normalizePrice gives prices that keep both halves together.
LEMMA NormalPrice ==
  ASSUME NEW a \in Catalog!GivenAmount, NEW c \in Catalog!GivenCurrency,
         Catalog!PriceAccepted(a, c)
  PROVE  LET price == Catalog!NormalizedPrice(a, c) IN
         price \in Catalog!Price /\ PriceOK(price)
<1>1. CASE Catalog!Present(a)
  <2>1. a.amount \in Catalog!Text /\ c.isCode \in BOOLEAN
        /\ Catalog!MoneyAccepts(a.amount, 6, FALSE, c.isCode)
    BY <1>1, AdministrationAssumption
       DEF Catalog!GivenAmount, Catalog!GivenCurrency, Catalog!Present, Catalog!PriceAccepted
  <2>2. PICK n : /\ n = Catalog!Normalized(a.amount)
                 /\ n \in Catalog!Text /\ n # Catalog!NoText
                 /\ Catalog!MoneyAccepts(n, 6, FALSE, TRUE)
                 /\ Catalog!Normalized(n) = n
    BY <2>1, NormalIsNormal
  <2>3. Catalog!NormalizedPrice(a, c) = [amount |-> n, currency |-> "code"]
    BY <1>1, <2>2 DEF Catalog!NormalizedPrice
  <2>4. PICK price : price = [amount |-> n, currency |-> "code"]
    OBVIOUS
  <2>5. /\ price \in Catalog!Price /\ price.amount = n /\ price.currency = "code"
    BY <2>2, <2>4 DEF Catalog!Price
  <2>6. PriceOK(price)
    BY <2>2, <2>5 DEF PriceOK
  <2> QED
    BY <2>3, <2>4, <2>5, <2>6
<1>2. CASE ~Catalog!Present(a)
  BY <1>2, NoTexts DEF Catalog!NormalizedPrice
<1> QED
  BY <1>1, <1>2

\* Whatever an update is given, the price it leaves keeps both halves together.
LEMMA UpdatedPriceOK ==
  ASSUME NEW old \in Catalog!Price, PriceOK(old),
         NEW a \in Catalog!GivenAmount, NEW c \in Catalog!GivenCurrency,
         NEW price \in Catalog!UpdatedPrice(old, a, c)
  PROVE  price \in Catalog!Price /\ PriceOK(price)
BY NormalPrice DEF Catalog!UpdatedPrice

LEMMA NewPriceOK ==
  ASSUME NEW price \in Catalog!NewPrices
  PROVE  price \in Catalog!Price /\ PriceOK(price)
<1>1. PICK a \in Catalog!GivenAmount, c \in Catalog!GivenCurrency :
        Catalog!PriceAccepted(a, c) /\ price = Catalog!NormalizedPrice(a, c)
  BY DEF Catalog!NewPrices
<1> QED
  BY <1>1, NormalPrice

\* A call goes from one place to another and changes no product.
LEMMA CallMoves ==
  ASSUME CatalogInv, NEW c \in Requests, NEW l \in Catalog!Call, Catalog!Goto(c, l), CallOK(l),
         \A d \in Requests \ {c} : Apart(call[d], l) /\ Apart(l, call[d])
  PROVE  CatalogInv'
<1>1. /\ product' = product /\ call' \in [Requests -> Catalog!Call] /\ call'[c] = l
      /\ \A d \in Requests \ {c} : call'[d] = call[d]
  BY DEF Catalog!Goto, CatalogInv, Catalog!CatalogTypeOK
<1>2. Catalog!CatalogTypeOK'
  BY <1>1 DEF CatalogInv, Catalog!CatalogTypeOK
<1>3. ASSUME NEW d \in Requests PROVE CallOK(call[d])'
  <2>1. CallOK(call'[d])
    BY <1>1 DEF CatalogInv
  <2> QED
    BY <1>1, <2>1 DEF CallOK, PriceOK
<1>4. \A d, e \in Requests : d # e => Apart(call[d], call[e])'
  BY <1>1 DEF CatalogInv, Apart
<1>5. \A p \in Products : PriceOK(product[p].price)'
  BY <1>1 DEF CatalogInv, PriceOK
<1> QED
  BY <1>2, <1>3, <1>4, <1>5 DEF CatalogInv

\* A call stores the next version of its product.
LEMMA StoreInv ==
  ASSUME CatalogInv, NEW c \in Requests, NEW next \in Catalog!Product, Catalog!Store(c, next),
         call[c].product \in Products, next.version > product[call[c].product].version,
         \A d \in Requests \ {c} :
           call[d].phase = "creating" => call[d].product # call[c].product,
         PriceOK(next.price)
  PROVE  CatalogInv'
<1> DEFINE p == call[c].product
<1>1. /\ product \in [Products -> Catalog!Product] /\ call \in [Requests -> Catalog!Call]
      /\ product' = [product EXCEPT ![p] = next]
      /\ call' = [call EXCEPT ![c] = Catalog!NoCall]
  BY DEF Catalog!Store, CatalogInv, Catalog!CatalogTypeOK
<1>2. /\ product' \in [Products -> Catalog!Product] /\ product'[p] = next
      /\ \A q \in Products \ {p} : product'[q] = product[q]
      /\ call' \in [Requests -> Catalog!Call] /\ call'[c] = Catalog!NoCall
      /\ \A d \in Requests \ {c} : call'[d] = call[d]
  BY <1>1, AbsentCall
<1>3. \A q \in Products : product[q].version \in Nat /\ product'[q].version \in Nat
  BY <1>1, <1>2 DEF Catalog!Product
<1> HIDE DEF p
<1>4. ASSUME NEW d \in Requests PROVE CallOK(call[d])'
  <2>1. CASE d = c
    BY <1>2, <2>1, AbsentCall DEF CallOK, PriceOK
  <2>2. CASE d # c
    <3>1. PICK k : k = call[d] /\ k = call'[d] /\ k \in Catalog!Call /\ CallOK(k)
      BY <1>1, <1>2, <2>2 DEF CatalogInv
    <3>2. k.base.version \in Nat /\ PriceOK(k.base.price)
      BY <3>1 DEF Catalog!Call, Catalog!Product, CallOK
    <3>3. k.phase # "idle" => k.product \in Products
      BY <3>1 DEF CallOK
    <3>4. k.phase = "creating" => k.product # p
      BY <2>2, <3>1 DEF p
    <3>5. CASE k.phase \notin {"creating", "replacing"}
      BY <3>1, <3>2, <3>3, <3>5 DEF CallOK
    <3>6. CASE k.phase = "creating"
      BY <1>2, <3>1, <3>2, <3>3, <3>4, <3>6 DEF CallOK
    <3>7. CASE k.phase = "replacing" /\ k.product # p
      BY <1>2, <3>1, <3>2, <3>3, <3>7 DEF CallOK
    <3>8. CASE k.phase = "replacing" /\ k.product = p
      <4>1. product'[p].version > k.base.version /\ k.base.version > 0
        BY <1>2, <1>3, <3>1, <3>2, <3>3, <3>8 DEF CallOK, p
      <4> QED
        BY <1>3, <3>1, <3>2, <3>3, <3>8, <4>1 DEF CallOK
    <3> QED
      BY <3>5, <3>6, <3>7, <3>8
  <2> QED
    BY <2>1, <2>2
<1>5. \A d, e \in Requests : d # e => Apart(call[d], call[e])'
  BY <1>2, AbsentCall DEF CatalogInv, Apart
<1>6. \A q \in Products : PriceOK(product'[q].price)
  <2>1. \A q \in Products : PriceOK(product[q].price)
    BY DEF CatalogInv
  <2> QED
    BY <1>2, <2>1
<1>7. \A q \in Products : PriceOK(product[q].price)'
  BY <1>6 DEF PriceOK
<1> QED
  BY <1>2, <1>4, <1>5, <1>7 DEF CatalogInv, Catalog!CatalogTypeOK

LEMMA ReturnInv ==
  ASSUME CatalogInv, NEW c \in Requests, Catalog!Return(c)
  PROVE  CatalogInv'
BY CallMoves, AbsentCall DEF Catalog!Return, Apart

LEMMA BeginCreateInv ==
  ASSUME CatalogInv, NEW c \in Requests, NEW subject, Catalog!BeginCreate(c, subject)
  PROVE  CatalogInv'
<1>1. PICK p, l :
        /\ p \in Products
        /\ l = [Catalog!NoCall EXCEPT !.phase = "creating", !.op = "create", !.product = p]
        /\ product[p].version = 0 /\ \A d \in Requests : call[d].product # p
        /\ Catalog!Goto(c, l)
  BY DEF Catalog!BeginCreate
<1>2. /\ l \in Catalog!Call /\ l.phase = "creating" /\ l.product = p
      /\ l.base = Catalog!AbsentProduct
  BY <1>1, AbsentCall DEF Catalog!Call
<1> QED
  BY <1>1, <1>2, AbsentCall, CallMoves DEF CallOK, Apart

LEMMA BeginChangeInv ==
  ASSUME CatalogInv, NEW c \in Requests, NEW subject, Catalog!BeginChange(c, subject)
  PROVE  CatalogInv'
<1>1. PICK p, op, l :
        /\ p \in Products /\ op \in {"update", "change-status"}
        /\ l = [Catalog!NoCall EXCEPT !.phase = "loading", !.op = op, !.product = p]
        /\ Catalog!Goto(c, l)
  BY DEF Catalog!BeginChange
<1>2. /\ l \in Catalog!Call /\ l.phase = "loading" /\ l.product = p
      /\ l.base = Catalog!AbsentProduct
  BY <1>1, AbsentCall DEF Catalog!Call
<1> QED
  BY <1>1, <1>2, AbsentCall, CallMoves DEF CallOK, Apart

\* What is known of a call in progress.
LEMMA CallFacts ==
  ASSUME CatalogInv, NEW c \in Requests, call[c].phase # "idle"
  PROVE  /\ call[c] \in Catalog!Call /\ CallOK(call[c]) /\ call[c].product \in Products
         /\ product[call[c].product] \in Catalog!Product
         /\ PriceOK(product[call[c].product].price)
BY DEF CatalogInv, Catalog!CatalogTypeOK, CallOK

LEMMA LoadInv ==
  ASSUME CatalogInv, NEW c \in Requests, Catalog!Load(c)
  PROVE  CatalogInv'
<1>1. PICK p, l :
        /\ p = product[call[c].product]
        /\ l = [call[c] EXCEPT !.phase = "replacing", !.base = p]
        /\ call[c].phase = "loading" /\ p.version > 0 /\ Catalog!Goto(c, l)
  BY DEF Catalog!Load
<1>2. /\ l \in Catalog!Call /\ l.phase = "replacing" /\ l.base = p
      /\ l.product = call[c].product /\ l.product \in Products
      /\ PriceOK(p.price) /\ p.version \in Nat
  BY <1>1, CallFacts DEF Catalog!Call, Catalog!Product
<1>3. CallOK(l)
  BY <1>1, <1>2 DEF CallOK
<1> QED
  BY <1>1, <1>2, <1>3, CallMoves DEF Apart

LEMMA UpdatedIs ==
  ASSUME NEW p \in Catalog!Product, NEW code \in ModelCodes, NEW price \in Catalog!Price,
         NEW now \in Nat
  PROVE  LET next == Catalog!Updated(p, code, price, now) IN
         /\ next \in Catalog!Product /\ next.price = price
         /\ next.version = p.version + 1 /\ next.updatedAt = now
<1>1. PICK v \in Nat : v = p.version + 1
  BY DEF Catalog!Product
<1>2. Catalog!Updated(p, code, price, now) =
        [p EXCEPT !.code = code, !.price = price, !.version = v, !.updatedAt = now]
  BY <1>1 DEF Catalog!Updated
<1> QED
  BY <1>1, <1>2 DEF Catalog!Product

\* The next version of a product, as an update or a change of status computes it.
LEMMA ChangesOK ==
  ASSUME NEW l \in Catalog!Call, PriceOK(l.base.price),
         NEW now \in Nat, NEW next \in Catalog!Changes(l, now)
  PROVE  /\ next \in Catalog!Product /\ PriceOK(next.price)
         /\ next.version = l.base.version + 1 /\ next.updatedAt = now
<1>1. l.base \in Catalog!Product /\ l.base.price \in Catalog!Price /\ l.base.version + 1 \in Nat
  BY DEF Catalog!Call, Catalog!Product
<1>2. CASE l.op = "update"
  <2>1. PICK code \in ModelCodes, price \in UNION {Catalog!UpdatedPrice(l.base.price, a, u) :
                               a \in Catalog!GivenAmount, u \in Catalog!GivenCurrency} :
          next = Catalog!Updated(l.base, code, price, now)
    BY <1>2 DEF Catalog!Changes
  <2>2. PICK a \in Catalog!GivenAmount, u \in Catalog!GivenCurrency :
          price \in Catalog!UpdatedPrice(l.base.price, a, u)
    BY <2>1
  <2>3. price \in Catalog!Price /\ PriceOK(price)
    BY <1>1, <2>2, UpdatedPriceOK
  <2> QED
    BY <1>1, <2>1, <2>3, UpdatedIs
<1>3. CASE l.op # "update"
  <2>1. PICK t \in Catalog!Transitions : next = Catalog!WithStatus(l.base, t[2], now)
    BY <1>3 DEF Catalog!Changes
  <2>2. t[2] \in {"draft", "published", "archived"}
    BY <2>1 DEF Catalog!Transitions
  <2>3. PICK v \in Nat : v = l.base.version + 1
    BY <1>1
  <2>4. next = [l.base EXCEPT !.status = t[2], !.version = v, !.updatedAt = now]
    BY <2>1, <2>3 DEF Catalog!WithStatus
  <2>5. /\ next \in Catalog!Product /\ next.price = l.base.price /\ next.version = v
        /\ next.updatedAt = now
    BY <1>1, <2>2, <2>4 DEF Catalog!Product
  <2> QED
    BY <2>3, <2>5
<1> QED
  BY <1>2, <1>3

LEMMA CreateInv ==
  ASSUME CatalogInv, NEW c \in Requests, Catalog!Create(c)
  PROVE  CatalogInv'
<1>0. PICK code \in ModelCodes, status \in {"draft", "published"}, price \in Catalog!NewPrices,
           now \in 0..MaxTime : Catalog!Store(c, Catalog!Created(code, status, price, now))
  BY DEF Catalog!Create
<1>1. PICK next : next = Catalog!Created(code, status, price, now) /\ Catalog!Store(c, next)
  BY <1>0
<1>2. call[c].phase = "creating"
  BY DEF Catalog!Create
<1>3. price \in Catalog!Price /\ PriceOK(price) /\ now \in Nat
  BY NewPriceOK, AdministrationAssumption
<1>4. next \in Catalog!Product /\ next.version = 1 /\ next.price = price
  BY <1>1, <1>3 DEF Catalog!Created, Catalog!Product
<1>5. call[c].product \in Products /\ product[call[c].product].version = 0
  BY <1>2, CallFacts DEF CallOK
<1>6. \A d \in Requests \ {c} : call[d].phase = "creating" => call[d].product # call[c].product
  BY <1>2 DEF CatalogInv, Apart
<1> QED
  BY <1>1, <1>3, <1>4, <1>5, <1>6, StoreInv

\* What replaceIfVersionMatches replaces, and by what.
LEMMA Replaced ==
  ASSUME CatalogInv, NEW c \in Requests, Catalog!Replace(c)
  PROVE  LET l == call[c] IN
         /\ l.phase = "replacing" /\ l.product \in Products
         /\ product[l.product] = l.base /\ l.base.version > 0 /\ l.base.status # "archived"
         /\ \E next \in Catalog!Product :
              /\ Catalog!Store(c, next) /\ PriceOK(next.price)
              /\ next.version = l.base.version + 1 /\ next.updatedAt >= l.base.updatedAt
<1>1. PICK now \in 0..MaxTime : \E next \in Catalog!Changes(call[c], now) :
        Catalog!Mutable(call[c].base, now) /\ Catalog!Store(c, next)
  BY DEF Catalog!Replace
<1>2. PICK next \in Catalog!Changes(call[c], now) :
        Catalog!Mutable(call[c].base, now) /\ Catalog!Store(c, next)
  BY <1>1
<1>3. call[c].phase = "replacing" /\ product[call[c].product].version = call[c].base.version
  BY DEF Catalog!Replace
<1>4. call[c] \in Catalog!Call /\ CallOK(call[c]) /\ call[c].product \in Products
  BY <1>3, CallFacts
<1>5. now \in Nat
  BY AdministrationAssumption
<1>6. /\ next \in Catalog!Product /\ PriceOK(next.price)
      /\ next.version = call[c].base.version + 1 /\ next.updatedAt = now
  BY <1>4, <1>5, ChangesOK DEF CallOK
<1>7. call[c].base.status # "archived" /\ now >= call[c].base.updatedAt
  BY <1>2 DEF Catalog!Mutable, Catalog!MutationTimeAccepted
<1> QED
  BY <1>2, <1>3, <1>4, <1>6, <1>7 DEF CallOK

LEMMA ReplaceInv ==
  ASSUME CatalogInv, NEW c \in Requests, Catalog!Replace(c)
  PROVE  CatalogInv'
<1>1. /\ call[c].phase = "replacing" /\ call[c].product \in Products
      /\ product[call[c].product] = call[c].base
  BY Replaced
<1>2. PICK next \in Catalog!Product :
        /\ Catalog!Store(c, next) /\ PriceOK(next.price)
        /\ next.version = call[c].base.version + 1
  BY Replaced
<1>3. call[c].base.version \in Nat /\ next.version > product[call[c].product].version
  BY <1>1, <1>2 DEF CatalogInv, Catalog!CatalogTypeOK, Catalog!Call, Catalog!Product
<1>4. \A d \in Requests \ {c} : call[d].phase = "creating" => call[d].product # call[c].product
  BY <1>1, Replaced DEF CatalogInv, CallOK
<1> QED
  BY <1>1, <1>2, <1>3, <1>4, StoreInv

LEMMA CatalogStepInv ==
  ASSUME CatalogInv, NEW c \in Requests, Catalog!Step(c)
  PROVE  CatalogInv'
BY LoadInv, CreateInv, ReplaceInv, ReturnInv
   DEF Catalog!Step, Catalog!NotFound, Catalog!Invalid, Catalog!Conflict, Catalog!Fail

-----------------------------------------------------------------------------
(* Both together.                                                          *)

\* A step on roles leaves alone who is in the catalogue, and what he may do there.
LEMMA RolesLink ==
  ASSUME AccessInv, NEW r \in Requests, Start(r) \/ StepOf(r), NEW v \in Requests
  PROVE  /\ request'[v].phase = "delegated" <=> request[v].phase = "delegated"
         /\ request[v].phase = "delegated" => held[v] \subseteq held'[v]
<1>1. request \in [Requests -> Request] /\ held \in [Requests -> SUBSET Permissions]
  BY DEF AccessInv, AccessTypeOK
<1>2. ASSUME NEW a \in Accounts, NEW assurance \in {"AAL1", "AAL2"},
             Authenticate(r, a, assurance)
      PROVE  /\ request[r].phase # "delegated" /\ request'[r].phase # "delegated"
             /\ v # r => request'[v] = request[v] /\ held'[v] = held[v]
  <2>1. Actor(a, assurance).phase = "authenticated"
    BY DEF Actor, Idle
  <2> QED
    BY <1>1, <1>2, <2>1 DEF Authenticate
<1>3. ASSUME End(r), request[r].phase # "delegated"
      PROVE  /\ request'[r].phase # "delegated"
             /\ v # r => request'[v] = request[v] /\ held'[v] = held[v]
  BY <1>1, <1>3, IdleRequest DEF End
<1>4. ASSUME NEW q, Goto(r, q), q.phase # "delegated", request[r].phase # "delegated"
      PROVE  /\ request'[r].phase # "delegated"
             /\ v # r => request'[v] = request[v] /\ held'[v] = held[v]
  BY <1>1, <1>4 DEF Goto
<1>5. ASSUME NEW q \in Request, Begin(r, q), q.phase # "delegated"
      PROVE  /\ request[r].phase # "delegated" /\ request'[r].phase # "delegated"
             /\ v # r => request'[v] = request[v] /\ held'[v] = held[v]
  <2>1. [q EXCEPT !.access = {}].phase = q.phase
    BY DEF Request
  <2> QED
    BY <1>4, <1>5, <2>1 DEF Begin
<1>6. ASSUME \/ \E x \in Roles : CreateRole(r, x) \/ ReplacePermissions(r, x)
             \/ \E a \in Accounts : AssignRoles(r, a)
      PROVE  /\ request[r].phase # "delegated" /\ request'[r].phase # "delegated"
             /\ v # r => request'[v] = request[v] /\ held'[v] = held[v]
  <2>1. request[r] \in Request
    BY <1>1
  <2>2. ASSUME NEW x \in Roles
        PROVE  /\ [request[r] EXCEPT !.phase = "executing", !.op = "create-role",
                                     !.role = x] \in Request
               /\ [request[r] EXCEPT !.phase = "reading", !.op = "replace-permissions",
                                     !.role = x] \in Request
    BY <2>1 DEF Request, Operations
  <2>3. ASSUME NEW a \in Accounts
        PROVE  [request[r] EXCEPT !.phase = "reading", !.op = "assign-roles",
                                  !.target = a] \in Request
    BY <2>1 DEF Request, Operations
  <2>4. /\ \A x \in Roles :
             /\ [request[r] EXCEPT !.phase = "executing", !.op = "create-role",
                                   !.role = x].phase = "executing"
             /\ [request[r] EXCEPT !.phase = "reading", !.op = "replace-permissions",
                                   !.role = x].phase = "reading"
        /\ \A a \in Accounts :
             [request[r] EXCEPT !.phase = "reading", !.op = "assign-roles",
                                !.target = a].phase = "reading"
    BY <2>1 DEF Request
  <2> QED
    BY <1>5, <1>6, <2>2, <2>3, <2>4 DEF CreateRole, ReplacePermissions, AssignRoles
<1>7. ASSUME NEW x, ReadRole(r, x)
      PROVE  /\ request[r].phase # "delegated" /\ request'[r].phase # "delegated"
             /\ v # r => request'[v] = request[v] /\ held'[v] = held[v]
  <2>1. PICK q : /\ q = [request[r] EXCEPT !.phase = "executing", !.expected = x,
                          !.newRole = RoleDefinition(role[request[r].role].name, {}, x + 1)]
                 /\ request[r].phase = "reading" /\ (Goto(r, q) \/ End(r))
    BY <1>7 DEF ReadRole
  <2>2. q.phase = "executing"
    BY <1>1, <2>1 DEF Request
  <2> QED
    BY <1>3, <1>4, <2>1, <2>2
<1>8. ASSUME NEW xs, ReadRoles(r, xs)
      PROVE  /\ request[r].phase # "delegated" /\ request'[r].phase # "delegated"
             /\ v # r => request'[v] = request[v] /\ held'[v] = held[v]
  <2>1. PICK q : /\ q = [request[r] EXCEPT !.phase = "executing", !.newRoles = xs]
                 /\ request[r].phase = "reading" /\ (Goto(r, q) \/ End(r))
    BY <1>8 DEF ReadRoles
  <2>2. q.phase = "executing"
    BY <1>1, <2>1 DEF Request
  <2> QED
    BY <1>3, <1>4, <2>1, <2>2
<1>9. ASSUME NEW accepted, NEW q \in Request, Write(r, accepted, q),
             request[r].phase = "executing"
      PROVE  /\ request'[r].phase # "delegated"
             /\ v # r => request'[v] = request[v] /\ held'[v] = held[v]
  <2>1. [q EXCEPT !.phase = "committing"].phase = "committing"
    BY DEF Request
  <2> QED
    BY <1>3, <1>4, <1>9, <2>1 DEF Write
<1>10. CASE Commit(r)
  BY <1>10, CommitKeeps, IdleRequest DEF Commit
<1>11. CASE Abort(r)
  BY <1>3, <1>11 DEF Abort
<1>12. ASSUME \/ \E n \in Names, ps \in Grants : InsertRole(r, n, ps)
              \/ \E ps \in Grants : UpdateRole(r, ps)
              \/ \E x \in 0..MaxChanges : ReplaceAccountRoles(r, x)
       PROVE  /\ request[r].phase # "delegated" /\ request'[r].phase # "delegated"
              /\ v # r => request'[v] = request[v] /\ held'[v] = held[v]
  <2>1. request[r] \in Request
    BY <1>1
  <2>2. ASSUME NEW n \in Names, NEW ps, Canonical(ps)
        PROVE  [request[r] EXCEPT !.newRole = RoleDefinition(n, ps, 1)] \in Request
    <3>1. RoleDefinition(n, ps, 1) \in Role
      BY <2>2 DEF RoleDefinition, Role, Canonical
    <3> QED
      BY <2>1, <3>1 DEF Request
  <2>3. ASSUME NEW ps, Canonical(ps)
        PROVE  [request[r] EXCEPT !.newRole.permissions = ps] \in Request
    <3>1. [request[r].newRole EXCEPT !.permissions = ps] \in Role
      BY <2>1, <2>3 DEF Request, Role, Canonical
    <3> QED
      BY <2>1, <3>1 DEF Request
  <2>4. \A x \in 0..MaxChanges : [request[r] EXCEPT !.expected = x] \in Request
    BY <2>1, RoleAccessAssumption DEF Request
  <2>5. CASE \E n \in Names, ps \in Grants : InsertRole(r, n, ps)
    BY <1>9, <2>2, <2>5 DEF InsertRole
  <2>6. CASE \E ps \in Grants : UpdateRole(r, ps)
    BY <1>9, <2>3, <2>6 DEF UpdateRole
  <2>7. CASE \E x \in 0..MaxChanges : ReplaceAccountRoles(r, x)
    BY <1>9, <2>4, <2>7 DEF ReplaceAccountRoles
  <2> QED
    BY <1>12, <2>5, <2>6, <2>7
<1> QED
  <2>1. CASE Commit(r)
    BY <1>10, <2>1
  <2>2. CASE ~Commit(r)
    <3>1. /\ request[r].phase # "delegated" /\ request'[r].phase # "delegated"
          /\ v # r => request'[v] = request[v] /\ held'[v] = held[v]
      BY <1>2, <1>6, <1>7, <1>8, <1>11, <1>12, <1>3, <2>2 DEF Start, StepOf, Abort
    <3> QED
      BY <3>1
  <2> QED
    BY <2>1, <2>2

\* A request hands its actor to the catalogue.
LEMMA DelegateInv ==
  ASSUME IndInv, NEW r \in Requests, Delegate(r)
  PROVE  IndInv'
<1> DEFINE q == [request[r] EXCEPT !.phase = "delegated", !.access = {}]
<1>1. /\ request[r].phase = "authenticated" /\ request[r] \in Request
      /\ RequestOK(request[r], held[r]) /\ held[r] \in SUBSET Permissions
      /\ request \in [Requests -> Request] /\ held \in [Requests -> SUBSET Permissions]
  BY DEF Delegate, IndInv, AccessInv, AccessTypeOK
<1>2. q \in Request /\ q.phase = "delegated" /\ q.account = request[r].account
  BY <1>1 DEF Request
<1>3. request' = [request EXCEPT ![r] = q] /\ UNCHANGED <<rows, held>>
  BY DEF Delegate
<1> HIDE DEF q
<1>4. AccessInv'
  <2>1. RequestOK(q, held[r])
    BY <1>1, <1>2 DEF RequestOK, Working
  <2>2. \A v \in Requests \ {r} : Excluded(request[v], q)
    BY <1>2 DEF Excluded
  <2>3. held' = [held EXCEPT ![r] = held[r]] /\ UNCHANGED rows
    BY <1>1, <1>3
  <2> QED
    BY <1>1, <1>2, <1>3, <2>1, <2>2, <2>3, MoveInv DEF IndInv
<1>5. CatalogInv'
  BY BeginCreateInv, BeginChangeInv DEF Delegate, IndInv
<1>6. /\ Catalog!ManageProducts \in held[r] /\ call'[r].phase # "idle"
      /\ \A d \in Requests \ {r} : call'[d] = call[d]
  <2>1. request[r].access \subseteq held[r] /\ Catalog!ManageProducts \in request[r].access
    BY <1>1 DEF Delegate, Catalog!BeginCreate, Catalog!BeginChange, Catalog!MayManage,
                RequestOK, Arrived
  <2>2. PICK l : Catalog!Goto(r, l) /\ l.phase \in {"creating", "loading"}
    <3>1. CASE Catalog!BeginCreate(r, request[r].access)
      <4>1. PICK p, l :
              /\ l = [Catalog!NoCall EXCEPT !.phase = "creating", !.op = "create",
                                            !.product = p]
              /\ Catalog!Goto(r, l)
        BY <3>1 DEF Catalog!BeginCreate
      <4>2. l.phase = "creating"
        BY <4>1 DEF Catalog!NoCall
      <4> QED
        BY <4>1, <4>2
    <3>2. CASE Catalog!BeginChange(r, request[r].access)
      <4>1. PICK p, op, l :
              /\ l = [Catalog!NoCall EXCEPT !.phase = "loading", !.op = op, !.product = p]
              /\ Catalog!Goto(r, l)
        BY <3>2 DEF Catalog!BeginChange
      <4>2. l.phase = "loading"
        BY <4>1 DEF Catalog!NoCall
      <4> QED
        BY <4>1, <4>2
    <3> QED
      BY <3>1, <3>2 DEF Delegate
  <2>3. call \in [Requests -> Catalog!Call]
    BY DEF IndInv, CatalogInv, Catalog!CatalogTypeOK
  <2> QED
    BY <2>1, <2>2, <2>3 DEF Catalog!Goto
<1>7. \A d \in Requests : Linked(d)'
  BY <1>1, <1>2, <1>3, <1>6 DEF Linked, IndInv
<1> QED
  BY <1>4, <1>5, <1>7 DEF IndInv

\* A step of the catalogue is one of a call in progress.
LEMMA CatalogStepCalls ==
  ASSUME CatalogInv, NEW c \in Requests, Catalog!Step(c)
  PROVE  /\ call[c].phase # "idle"
         /\ \A d \in Requests \ {c} : call'[d] = call[d]
<1>1. call \in [Requests -> Catalog!Call]
  BY DEF CatalogInv, Catalog!CatalogTypeOK
<1>2. \E l : call' = [call EXCEPT ![c] = l]
  BY DEF Catalog!Step, Catalog!Load, Catalog!Create, Catalog!Replace, Catalog!NotFound,
         Catalog!Invalid, Catalog!Conflict, Catalog!Fail, Catalog!Return, Catalog!Goto,
         Catalog!Store
<1>3. call[c].phase # "idle"
  BY DEF Catalog!Step, Catalog!Load, Catalog!Create, Catalog!Replace, Catalog!NotFound,
         Catalog!Invalid, Catalog!Conflict, Catalog!Fail
<1> QED
  BY <1>1, <1>2, <1>3

LEMMA CatalogInvStep ==
  ASSUME IndInv, NEW c \in Requests, CatalogStep(c)
  PROVE  IndInv'
<1>1. Catalog!Step(c) /\ IF call'[c].phase = "idle" THEN End(c) ELSE UNCHANGED accessVars
  BY DEF CatalogStep
<1>2. CatalogInv'
  BY <1>1, CatalogStepInv DEF IndInv
<1>3. /\ call[c].phase # "idle" /\ \A d \in Requests \ {c} : call'[d] = call[d]
  BY <1>1, CatalogStepCalls DEF IndInv
<1>4. CASE call'[c].phase = "idle"
  <2>1. AccessInv'
    BY <1>1, <1>4, EndInv DEF IndInv
  <2>2. /\ request'[c].phase = "idle"
        /\ \A d \in Requests \ {c} : request'[d] = request[d] /\ held'[d] = held[d]
    BY <1>1, <1>4, IdleRequest DEF End, IndInv, AccessInv, AccessTypeOK
  <2>3. \A d \in Requests : Linked(d)'
    BY <1>3, <1>4, <2>2 DEF Linked, IndInv
  <2> QED
    BY <1>2, <2>1, <2>3 DEF IndInv
<1>5. CASE call'[c].phase # "idle"
  <2>1. UNCHANGED <<role, roleSet, audit, request, held>>
    BY <1>1, <1>5 DEF accessVars
  <2>2. AccessInv'
    BY <2>1 DEF IndInv, AccessInv, AccessTypeOK, RequestOK, Arrived, Admitted, CreationOK,
                ReplacementOK, AssignmentOK, LocksExclude, RoleNamesDiffer, AssignedRolesExist
  <2>3. \A d \in Requests : Linked(d)'
    BY <1>3, <1>5, <2>1 DEF Linked, IndInv
  <2> QED
    BY <1>2, <2>2, <2>3 DEF IndInv
<1> QED
  BY <1>4, <1>5

\* Nothing of the catalogue changes with its products and calls.
LEMMA CatalogStays ==
  ASSUME CatalogInv, UNCHANGED <<product, call>>
  PROVE  CatalogInv'
<1>1. Catalog!CatalogTypeOK'
  BY DEF CatalogInv, Catalog!CatalogTypeOK
<1>2. ASSUME NEW c \in Requests PROVE CallOK(call[c])'
  BY DEF CatalogInv, CallOK, PriceOK
<1>3. \A c, d \in Requests : c # d => Apart(call[c], call[d])'
  BY DEF CatalogInv, Apart
<1>4. \A p \in Products : PriceOK(product[p].price)'
  BY DEF CatalogInv, PriceOK
<1> QED
  BY <1>1, <1>2, <1>3, <1>4 DEF CatalogInv

LEMMA InitInv == Init => IndInv
<1> SUFFICES ASSUME Init PROVE IndInv
  OBVIOUS
<1>1. PICK x \in Roles, n \in Names, a \in Accounts :
        /\ role = [y \in Roles |->
             IF y = x THEN [name |-> n, permissions |-> {ManageRoles}, version |-> 1]
                      ELSE AbsentRole]
        /\ roleSet = [b \in Accounts |->
             IF b = a THEN [roles |-> {x}, version |-> 1] ELSE AbsentSet]
  BY DEF Init, InitAccess
<1>2. /\ \A r \in Requests : request[r] = Idle
      /\ request \in [Requests -> Request] /\ held \in [Requests -> SUBSET Permissions]
      /\ audit \in [Roles \union Accounts -> Nat]
  BY IdleRequest DEF Init, InitAccess
<1>3. AccessTypeOK
  <2>1. role \in [Roles -> Role]
    BY <1>1, IdleRequest, RoleAccessAssumption DEF Role
  <2>2. roleSet \in [Accounts -> RoleSet]
    BY <1>1 DEF AbsentSet, RoleSet
  <2> QED
    BY <1>2, <2>1, <2>2 DEF AccessTypeOK
<1>4. LocksExclude /\ \A r \in Requests : RequestOK(request[r], held[r])
  BY <1>2, IdleRequest DEF LocksExclude, Excluded, RequestOK, Working
<1>5. RoleNamesDiffer /\ AssignedRolesExist
  BY <1>1, RoleAccessAssumption
     DEF RoleNamesDiffer, AssignedRolesExist, AbsentRole, AbsentSet
<1>6. /\ Catalog!CatalogTypeOK /\ \A p \in Products : product[p] = Catalog!AbsentProduct
      /\ \A c \in Requests : call[c] = Catalog!NoCall
  BY AbsentCall DEF Init, Catalog!InitCatalog, Catalog!CatalogTypeOK
<1>7. CatalogInv
  BY <1>6, AbsentCall DEF CatalogInv, Apart
<1>8. \A c \in Requests : Linked(c)
  BY <1>2, <1>6, AbsentCall, IdleRequest DEF Linked
<1> QED
  BY <1>3, <1>4, <1>5, <1>7, <1>8 DEF IndInv, AccessInv

LEMMA NextInv == IndInv /\ [Next]_vars => IndInv'
<1> SUFFICES ASSUME IndInv, [Next]_vars PROVE IndInv'
  OBVIOUS
<1>1. CASE UNCHANGED vars
  <2>1. UNCHANGED <<role, roleSet, audit, request, held, product, call>>
    BY <1>1 DEF vars, accessVars
  <2>2. AccessInv'
    BY <2>1 DEF IndInv, AccessInv, AccessTypeOK, RequestOK, Arrived, Admitted, CreationOK,
                ReplacementOK, AssignmentOK, LocksExclude, RoleNamesDiffer, AssignedRolesExist
  <2> QED
    BY <2>1, <2>2, CatalogStays DEF IndInv, Linked
<1>2. ASSUME NEW r \in Requests, Start(r) \/ StepOf(r), OnlyRoles
      PROVE  IndInv'
  <2>1. AccessInv' /\ CatalogInv'
    BY <1>2, RolesInv, CatalogStays DEF IndInv, OnlyRoles
  <2>2. \A c \in Requests : Linked(c)'
    BY <1>2, RolesLink DEF IndInv, Linked, OnlyRoles
  <2> QED
    BY <2>1, <2>2 DEF IndInv
<1> QED
  BY <1>1, <1>2, DelegateInv, CatalogInvStep DEF Next

-----------------------------------------------------------------------------
(* The theorems.                                                           *)

\* The inductive invariant holds in every state.
THEOREM Invariance == Spec => []IndInv
BY InitInv, NextInv, PTL DEF Spec

\* Every variable keeps its type.
THEOREM TypeCorrect == Spec => []TypeOK
<1>1. IndInv => TypeOK
  BY DEF IndInv, AccessInv, CatalogInv, TypeOK
<1> QED
  BY <1>1, Invariance, PTL

\* No two roles ever have the same name: a creation waits for one that inserted the name and
\* a change of permissions keeps the name it read (roles.ts create and replacePermissions).
THEOREM NamesAreUnique == Spec => []RoleNamesDiffer
<1>1. IndInv => RoleNamesDiffer
  BY DEF IndInv, AccessInv
<1> QED
  BY <1>1, Invariance, PTL

\* An account never has a role that does not exist, though assignRoles looks the roles up
\* before its transaction.
THEOREM NoDanglingRole == Spec => []AssignedRolesExist
<1>1. IndInv => AssignedRolesExist
  BY DEF IndInv, AccessInv
<1> QED
  BY <1>1, Invariance, PTL

\* Whatever creations and updates give for the halves of a price, the one that is stored has
\* both or none and an amount that money() gives back unchanged.
THEOREM PricesAreMoney == Spec => []PriceIsMoney
<1>1. IndInv => PriceIsMoney
  BY DEF IndInv, CatalogInv, PriceOK, PriceIsMoney, Catalog!PriceIsMoney
<1> QED
  BY <1>1, Invariance, PTL

\* The rows of roles and of the roles of accounts change by a commit only.
LEMMA RowsChangeByCommit ==
  ASSUME IndInv, [Next]_vars, role' # role \/ roleSet' # roleSet
  PROVE  \E r \in Requests : Commit(r)
BY DEF vars, accessVars, rows, Next, Start, StepOf, Authenticate, CreateRole,
       ReplacePermissions, AssignRoles, Begin, ReadRole, ReadRoles, InsertRole, UpdateRole,
       ReplaceAccountRoles, Write, Abort, Goto, End, Delegate, CatalogStep

\* A role or the roles of an account change by one version, by the request that named the
\* version it replaces, with the name kept and one audit record in the same transaction.
THEOREM RolesAreLinear == Spec => RoleHistoryIsLinear
<1> DEFINE A ==
      /\ \A x \in Roles : role'[x] # role[x] =>
           /\ role'[x].version = role[x].version + 1
           /\ role[x].version > 0 => role'[x].name = role[x].name
           /\ audit'[x] = audit[x] + 1
           /\ \E r \in Requests : request[r].role = x /\ request[r].expected = role[x].version
      /\ \A a \in Accounts : roleSet'[a] # roleSet[a] =>
           /\ roleSet'[a].version = roleSet[a].version + 1
           /\ audit'[a] = audit[a] + 1
           /\ \E r \in Requests :
                request[r].target = a /\ request[r].expected = roleSet[a].version
<1>1. ASSUME IndInv, [Next]_vars, role' # role \/ roleSet' # roleSet PROVE A
  <2>1. PICK r \in Requests : Commit(r)
    BY <1>1, RowsChangeByCommit
  <2>2. AccessInv /\ AccessTypeOK
    BY <1>1 DEF IndInv, AccessInv
  <2>3. CASE request[r].op = "assign-roles"
    <3>1. PICK a \in Accounts : a = request[r].target
      BY <2>1, <2>2, <2>3, Committed
    <3>2. /\ role' = role /\ roleSet[a].version = request[r].expected
          /\ roleSet' = [roleSet EXCEPT ![a] = [roles |-> request[r].newRoles,
                                                version |-> request[r].expected + 1]]
      BY <2>1, <2>2, <2>3, <3>1, Committed DEF RequestOK, Working, AssignmentOK
    <3>3. audit' = [audit EXCEPT ![a] = @ + 1]
      BY <2>1, <2>3, <3>1 DEF Commit, Recorded, Subject
    <3> QED
      BY <2>2, <3>1, <3>2, <3>3 DEF AccessTypeOK
  <2>4. CASE request[r].op # "assign-roles"
    <3>1. PICK x \in Roles : x = request[r].role
      BY <2>1, <2>2, <2>4, Committed
    <3>2. PICK d : d = request[r].newRole
      OBVIOUS
    <3>3. /\ roleSet' = roleSet /\ role' = [role EXCEPT ![x] = d]
          /\ d.version = role[x].version + 1 /\ role[x].version = request[r].expected
      BY <2>1, <2>2, <2>4, <3>1, <3>2, Committed
    <3>4. role[x].version > 0 => d.name = role[x].name
      <4>1. CASE request[r].op = "create-role"
        <5>1. CreationOK(request[r]) /\ request[r].phase = "committing"
          BY <2>1, <2>2, <4>1, Committed DEF RequestOK, Working
        <5>2. role[x].version = 0
          BY <3>1, <5>1 DEF CreationOK
        <5> QED
          BY <5>2
      <4>2. CASE request[r].op = "replace-permissions"
        BY <2>1, <2>2, <3>1, <3>2, <4>2, Committed
      <4>3. request[r].op \in Operations
        BY <2>1, <2>2, Committed DEF Admitted
      <4> QED
        BY <2>4, <4>1, <4>2, <4>3 DEF Operations
    <3>5. audit' = [audit EXCEPT ![x] = @ + 1]
      BY <2>1, <2>4, <3>1 DEF Commit, Recorded, Subject
    <3> QED
      BY <2>2, <3>1, <3>3, <3>4, <3>5 DEF AccessTypeOK
  <2> QED
    BY <2>3, <2>4
<1>2. IndInv /\ [Next]_vars => [A]_accessVars
  BY <1>1
<1>3. Spec => [][A]_accessVars
  BY <1>2, Invariance, PTL DEF Spec
<1> QED
  BY <1>3 DEF RoleHistoryIsLinear

\* A product changes by one version, from the row the change was computed from, never back
\* in time and never once it is archived.
THEOREM ProductsAreLinear == Spec => ProductHistoryIsLinear
<1> DEFINE A ==
      \A p \in Products : product[p].version > 0 /\ product'[p] # product[p] =>
        /\ product[p].status # "archived"
        /\ product'[p].version = product[p].version + 1
        /\ product'[p].updatedAt >= product[p].updatedAt
        /\ \E c \in Requests : call[c].product = p /\ call[c].base = product[p]
<1>1. ASSUME IndInv, NEW c \in Requests, Catalog!Step(c), product' # product
      PROVE  A
  <2>1. CatalogInv /\ product \in [Products -> Catalog!Product]
    BY <1>1 DEF IndInv, CatalogInv, Catalog!CatalogTypeOK
  <2>2. CASE Catalog!Create(c)
    <3>1. call[c].phase = "creating"
      BY <2>2 DEF Catalog!Create
    <3>2. call[c].product \in Products /\ product[call[c].product].version = 0
      BY <2>1, <3>1, CallFacts DEF CallOK
    <3>3. \E next : product' = [product EXCEPT ![call[c].product] = next]
      BY <2>2 DEF Catalog!Create, Catalog!Store
    <3> QED
      BY <2>1, <3>2, <3>3
  <2>3. CASE Catalog!Replace(c)
    <3>1. PICK p, base : p = call[c].product /\ base = call[c].base
      OBVIOUS
    <3>2. /\ p \in Products /\ product[p] = base /\ base.version > 0
          /\ base.status # "archived"
      BY <2>1, <2>3, <3>1, Replaced
    <3>3. PICK next \in Catalog!Product :
            /\ product' = [product EXCEPT ![p] = next]
            /\ next.version = base.version + 1 /\ next.updatedAt >= base.updatedAt
      BY <2>1, <2>3, <3>1, Replaced DEF Catalog!Store
    <3> QED
      BY <2>1, <3>1, <3>2, <3>3
  <2>4. CASE ~Catalog!Create(c) /\ ~Catalog!Replace(c)
    BY <1>1, <2>4 DEF Catalog!Step, Catalog!Load, Catalog!NotFound, Catalog!Invalid,
                      Catalog!Conflict, Catalog!Fail, Catalog!Return, Catalog!Goto
  <2> QED
    BY <2>2, <2>3, <2>4
<1>2. ASSUME [Next]_vars, product' # product PROVE \E c \in Requests : Catalog!Step(c)
  BY <1>2 DEF vars, Next, OnlyRoles, Delegate, CatalogStep, Catalog!BeginCreate,
              Catalog!BeginChange, Catalog!Goto
<1>3. IndInv /\ [Next]_vars => [A]_<<product, call>>
  <2>1. ASSUME IndInv, [Next]_vars, product' # product PROVE A
    BY <1>1, <1>2, <2>1
  <2>2. ASSUME product' = product PROVE A
    BY <2>2
  <2> HIDE DEF A
  <2> QED
    BY <2>1, <2>2
<1>4. Spec => [][A]_<<product, call>>
  <2> HIDE DEF A
  <2> QED
    BY <1>3, Invariance, PTL DEF Spec
<1> QED
  BY <1>4 DEF ProductHistoryIsLinear, Catalog!ProductHistoryIsLinear, Catalog!catalogVars

\* A change of a role, of the roles of an account or of a product is the COMMIT of a request
\* whose account had the permission for it in the rows committed when it authenticated.
THEOREM ChangesAreAuthorized == Spec => EveryChangeWasAuthorized
<1> DEFINE A ==
      /\ \A x \in Roles : role'[x] # role[x] =>
           \E r \in Requests : Authorized(r) /\ request[r].role = x
      /\ \A a \in Accounts : roleSet'[a] # roleSet[a] =>
           \E r \in Requests : Authorized(r) /\ request[r].target = a
      /\ \A p \in Products : product'[p] # product[p] =>
           \E r \in Requests : /\ call[r].product = p /\ call'[r] # call[r]
                               /\ Catalog!ManageProducts \in held[r]
<1>1. ASSUME IndInv, [Next]_vars, role' # role \/ roleSet' # roleSet
      PROVE  \E r \in Requests :
               /\ Authorized(r)
               /\ \A x \in Roles : role'[x] # role[x] => request[r].role = x
               /\ \A a \in Accounts : roleSet'[a] # roleSet[a] => request[r].target = a
  <2>1. PICK r \in Requests : Commit(r)
    BY <1>1, RowsChangeByCommit
  <2>2. AccessInv /\ AccessTypeOK
    BY <1>1 DEF IndInv, AccessInv
  <2>3. request[r].phase = "committing" /\ Admitted(request[r], held[r])
    BY <2>1, <2>2, Committed
  <2>4. request'[r].phase = "idle"
    BY <2>1, <2>2, CommitKeeps DEF Idle
  <2>5. Authorized(r)
    BY <2>3, <2>4 DEF Admitted, Authorized
  <2>6. \A x \in Roles : role'[x] # role[x] => request[r].role = x
    BY <2>1, <2>2, Committed DEF AccessTypeOK
  <2>7. \A a \in Accounts : roleSet'[a] # roleSet[a] => request[r].target = a
    BY <2>1, <2>2, Committed DEF AccessTypeOK
  <2> QED
    BY <2>5, <2>6, <2>7
<1>2. ASSUME IndInv, [Next]_vars, NEW p \in Products, product'[p] # product[p]
      PROVE  \E r \in Requests : /\ call[r].product = p /\ call'[r] # call[r]
                                 /\ Catalog!ManageProducts \in held[r]
  <2>1. PICK c \in Requests : Catalog!Step(c)
    BY <1>2 DEF vars, Next, OnlyRoles, Delegate, CatalogStep, Catalog!BeginCreate,
                Catalog!BeginChange, Catalog!Goto
  <2>2. call[c].phase # "idle"
    BY <1>2, <2>1, CatalogStepCalls DEF IndInv
  <2>3. Catalog!ManageProducts \in held[c]
    BY <1>2, <2>2 DEF IndInv, Linked
  <2>4. PICK next : Catalog!Store(c, next)
    BY <1>2, <2>1 DEF Catalog!Step, Catalog!Load, Catalog!Create, Catalog!Replace,
         Catalog!NotFound, Catalog!Invalid, Catalog!Conflict, Catalog!Fail, Catalog!Return,
         Catalog!Goto
  <2>5. /\ product \in [Products -> Catalog!Product]
        /\ call \in [Requests -> Catalog!Call]
    BY <1>2 DEF IndInv, CatalogInv, Catalog!CatalogTypeOK
  <2>6. call[c].product = p
    BY <1>2, <2>4, <2>5 DEF Catalog!Store
  <2>7. call'[c] # call[c]
    BY <2>2, <2>4, <2>5 DEF Catalog!Store, Catalog!NoCall
  <2> QED
    BY <2>3, <2>6, <2>7
<1>3. ASSUME IndInv, [Next]_vars PROVE A
  <2>1. CASE role' # role \/ roleSet' # roleSet
    BY <1>1, <1>2, <1>3, <2>1
  <2>2. CASE role' = role /\ roleSet' = roleSet
    BY <1>2, <1>3, <2>2
  <2> QED
    BY <2>1, <2>2
<1>4. Spec => [][A]_vars
  <2> HIDE DEF A
  <2>1. IndInv /\ [Next]_vars => [A]_vars
    BY <1>3
  <2> QED
    BY <2>1, Invariance, PTL DEF Spec
<1> QED
  BY <1>4 DEF EveryChangeWasAuthorized
=============================================================================
