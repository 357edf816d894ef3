SPECIFICATION Spec
CONSTANTS
  Clients = {c1, c2}
  Hashes = {h1, h2}
  NoHash = NoHash
  NoClient = NoClient
  Ttls = {1}
  PromptClients = FALSE
  MaxTime = 3
  MaxFaults = 2
SYMMETRY Symmetry
INVARIANTS
  OneOwnerPerGeneration
  CompletedByOwner
  ReplayIsAuthentic
PROPERTIES
  ImplementsContract
