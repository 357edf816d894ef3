SPECIFICATION Spec
CONSTANTS
  Ids = {i1, i2}
  Deliveries = {d1, d2}
  Workers = {w1, w2}
  Tokens = {t1, t2}
  NoDelivery = NoDelivery
  NoToken = NoToken
  NoId = NoId
  Ttls = {2}
  BatchSize = 2
  LeaseDuration = 1
  MaxAttempts = 2
  BaseDelay = 1
  MaxDelay = 2
  PromptWorkers = FALSE
  MaxTime = 2
  MaxFaults = 1
SYMMETRY Symmetry
INVARIANTS
  DeliveredWasAccepted
  SendsALeaseApart
PROPERTIES
  FencedRelease
  ImplementsContract
