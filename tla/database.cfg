SPECIFICATION Spec
CONSTANTS
  Calls = {c1, c2}
  Connections = {k1, k2}
  NoConnection = NoConnection
  PoolMax = 2
  Last = 2
  NoText = NoText
  a = a
  b = b
  Releases <- Deployed
  MaxFaults = 2
INVARIANTS
  PoolIsClean
  TransactionIsAtomic
  SchemaMatchesHistory
PROPERTIES
  MigratedMeansApplied
  LockIsFreed
