SPECIFICATION Spec
CONSTANTS
  MaxId = 3
  NoFile = NoFile
INVARIANTS
  AcknowledgedIsDurable
  NextIdIsFresh
