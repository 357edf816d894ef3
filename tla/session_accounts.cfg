SPECIFICATION Spec
CONSTANTS
  Requests = {r1, r2}
  Sessions = {s1}
  Challenges = {c1}
  Passwords = {p1, p2}
  Statuses = {"ACTIVE", "SUSPENDED"}
  NoRequest = NoRequest
  NoSession = NoSession
  NoChallenge = NoChallenge
  NoPassword = NoPassword
  Ops = {"provision", "sign-in", "authenticate", "sign-out-all", "change-password", "request-reset", "complete-reset", "request-verification", "complete-verification", "set-status"}
  SessionTtl = 2
  ChallengeTtl = 1
  RequireVerified = FALSE
  MaxVersion = 3
  MaxTime = 1
SYMMETRY Symmetry
INVARIANTS
  InactiveHasNoSessions
  RevocationIsComplete
  VerificationNotWasted
PROPERTIES
  NoLostUpdate
  PasswordReplacedOnce
