SPECIFICATION Spec
CONSTANTS
  Ids = {i1}
  Deliveries = {d1}
  Workers = {w1}
  Tokens = {t1, t2}
  NoDelivery = NoDelivery
  NoToken = NoToken
  NoId = NoId
  Ttls = {4}
  BatchSize = 2
  LeaseDuration = 1
  MaxAttempts = 2
  BaseDelay = 1
  MaxDelay = 2
  PromptWorkers = FALSE
  MaxTime = 4
  MaxFaults = 2
INVARIANTS
  SendsWithinBudget
