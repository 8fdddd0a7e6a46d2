SPECIFICATION LiveSpec
CONSTANTS
  Streams = {"Logs", "Data"}
  BatchLimit = 1
  MaxAttempts = 3
  MaxSeq = 1
  MaxBoots = 1
  Duplicates = FALSE
  Reclaims = FALSE
PROPERTIES
  Drained
