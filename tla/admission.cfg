SPECIFICATION Spec
CONSTANTS
  Calls = {c1, c2}
  Operations = {authSignIn}
  Peers = {p1, p2, p3}
  Principals = {a, b}
  SignIn = authSignIn
  NoPrincipal = NoPrincipal
  Limit <- Limits
  WindowMs = 2
  MaxKeys = 2
  MaxFailures = 2
  FailureWindowMs = 2
  LockMs = 2
  MaxPrincipals = 1
  MaxTime = 2
SYMMETRY Symmetry
INVARIANTS
  RateIsBounded
  GuessesAreBounded
PROPERTIES
  ExpiredGoFirst
