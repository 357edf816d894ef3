---------------------------- MODULE Administration ---------------------------
(***************************************************************************)
(* Role access and the catalogue together.  A request resolves its actor   *)
(* once and hands it either to an operation on roles or to the catalogue,  *)
(* whose calls take the same ActorContext as their subject: what it may do *)
(* was decided by rows that other requests go on changing.                 *)
(***************************************************************************)
EXTENDS RoleAccess

CONSTANTS Products, ModelCodes, CodeKey, Amounts, NoProduct, NoCode, MaxProductVersion,
          MaxTime

VARIABLES product, call

Catalog == INSTANCE CatalogProducts WITH Calls <- Requests

ASSUME AdministrationAssumption ==
  /\ CodeKey \in [ModelCodes -> ModelCodes] /\ Amounts \subseteq Catalog!Text
  /\ NoProduct \notin Products /\ NoCode \notin ModelCodes
  /\ MaxProductVersion \in Nat \ {0} /\ MaxTime \in Nat

vars == <<accessVars, product, call>>

Init == InitAccess /\ Catalog!InitCatalog

OnlyRoles == UNCHANGED <<product, call>>

\* The request calls the catalogue with its actor as the subject.
Delegate(r) ==
  /\ request[r].phase = "authenticated"
  /\ \/ Catalog!BeginCreate(r, request[r].access)
     \/ Catalog!BeginChange(r, request[r].access)
  /\ request' = [request EXCEPT ![r].phase = "delegated", ![r].access = {}]
  /\ UNCHANGED <<rows, held>>

\* The request ends with its call.
CatalogStep(r) ==
  /\ Catalog!Step(r)
  /\ IF call'[r].phase = "idle" THEN End(r) ELSE UNCHANGED accessVars

Next ==
  \/ \E r \in Requests : Start(r) /\ OnlyRoles
  \/ \E r \in Requests : StepOf(r) /\ OnlyRoles
  \/ \E r \in Requests : Delegate(r) \/ CatalogStep(r)

Spec == Init /\ [][Next]_vars

-----------------------------------------------------------------------------
(* Properties.                                                             *)

\* Every variable has its type.
TypeOK == AccessTypeOK /\ Catalog!CatalogTypeOK

ProductHistoryIsLinear == Catalog!ProductHistoryIsLinear
PriceIsMoney == Catalog!PriceIsMoney

\* The request whose COMMIT this step is, and which was allowed to manage roles.
Authorized(r) ==
  /\ request[r].phase = "committing" /\ request'[r].phase = "idle"
  /\ ManageRoles \in held[r] /\ request[r].assurance = "AAL2"

\* A role, the roles of an account or a product is changed only by the COMMIT of a request
\* whose own account had the permission in the rows committed when it authenticated: a
\* revocation stops every request that authenticates after it, at whatever operation, and
\* spares only those that had authenticated before (privileged.ts,
\* catalog-products-authorization.ts and the access actorFor resolves).
EveryChangeWasAuthorized ==
  [][/\ \A x \in Roles : role'[x] # role[x] =>
          \E r \in Requests : Authorized(r) /\ request[r].role = x
     /\ \A a \in Accounts : roleSet'[a] # roleSet[a] =>
          \E r \in Requests : Authorized(r) /\ request[r].target = a
     /\ \A p \in Products : product'[p] # product[p] =>
          \E r \in Requests : /\ call[r].product = p /\ call'[r] # call[r]
                              /\ Catalog!ManageProducts \in held[r]]_vars
=============================================================================
