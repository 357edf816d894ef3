SPECIFICATION Spec
CONSTANTS
  Requests = {r1, r2}
  Accounts = {a1, a2}
  Roles = {x1, x2}
  Names = {n1, n2}
  Permissions <- AllPermissions
  Grants <- ThreeGrants
  NoAccount = NoAccount
  NoRole = NoRole
  NoName = NoName
  MaxChanges = 2
  Products = {p1, p2}
  ModelCodes = {m1, m2}
  CodeKey <- OneKey
  Amounts <- FourAmounts
  NoProduct = NoProduct
  NoCode = NoCode
  MaxProductVersion = 3
  MaxTime = 1
SYMMETRY Symmetry
INVARIANTS
  PriceIsMoney
PROPERTIES
  RoleHistoryIsLinear
  ProductHistoryIsLinear
  EveryChangeWasAuthorized
