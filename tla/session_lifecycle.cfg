SPECIFICATION Spec
CONSTANTS
  Requests = {r1, r2}
  Sessions = {s1}
  Challenges = {c1}
  Passwords = {p1}
  Statuses = {"ACTIVE", "SUSPENDED"}
  NoRequest = NoRequest
  NoSession = NoSession
  NoChallenge = NoChallenge
  NoPassword = NoPassword
  Ops = {"provision", "sign-in", "authenticate", "rotate", "sign-out", "sign-out-all"}
  SessionTtl = 1
  ChallengeTtl = 1
  RequireVerified = FALSE
  MaxVersion = 5
  MaxTime = 2
SYMMETRY Symmetry
INVARIANTS
  SignedOutSecretIsDead
  RotationIsExclusive
PROPERTIES
  ImplementsContract
