SPECIFICATION FairSpec
CONSTANTS
  Clients = {c1, c2}
  Hashes = {h1}
  NoHash = NoHash
  NoClient = NoClient
  Ttls = {2}
  PromptClients = TRUE
  MaxTime = 7
  MaxFaults = 2
PROPERTIES
  InProgressIsResolved
