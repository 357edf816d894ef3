SPECIFICATION FairSpec
CONSTANTS
  Ids = {i1}
  Deliveries = {d1}
  Workers = {w1, w2}
  Tokens = {t1, t2, t3}
  NoDelivery = NoDelivery
  NoToken = NoToken
  NoId = NoId
  Ttls = {3}
  BatchSize = 2
  LeaseDuration = 2
  MaxAttempts = 2
  BaseDelay = 1
  MaxDelay = 1
  PromptWorkers = TRUE
  MaxTime = 14
  MaxFaults = 2
INVARIANTS
  ResendsAreFaults
PROPERTIES
  EventuallySettled
