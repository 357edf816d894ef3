SPECIFICATION Spec
CONSTANTS
  Requests = {r1, r2}
  Values = {v1, v2}
  NoValue = NoValue
  Hot = FALSE
  Foresight = FALSE
  MaxVersion = 3
SYMMETRY Symmetry
INVARIANTS
  RollbackRestores
  AuditTellsHistory
  ReportIsHonest
PROPERTIES
  NoLostUpdate
  ImplementsContract
