SPECIFICATION Spec
CONSTANTS
  Calls = {c1, c2, c3}
  Media = {m1}
  NoCall = NoCall
  NoMedia = NoMedia
  NoImage = NoImage
  Images <- ShortImages
  MaxFaults = 4
SYMMETRY Symmetry
INVARIANTS
  AcceptedIsWellFormed
  MetadataMarksWholeBytes
  NothingTornIsServed
  AuditedOrUndone
CHECK_DEADLOCK FALSE
