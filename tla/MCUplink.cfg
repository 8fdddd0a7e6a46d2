SPECIFICATION Spec
CONSTANTS
  Streams = {"Logs"}
  BatchLimit = 2
  MaxAttempts = 3
  MaxSeq = 3
  MaxBoots = 2
  Duplicates = TRUE
  Reclaims = TRUE
INVARIANTS
  TypeOK
  ConfirmedIsStored
  ServerHasNoHoles
PROPERTIES
  KeepsLogs
