SPECIFICATION Spec
CONSTANTS
  Stream = "Logs"
  SegmentRotate = 2
  MaxSegments = 9
  BatchLimit = 3
  Retention = 1
  MaxSeq = 9
  MaxUptime = 2
  WritesCanFail = TRUE
  IndexCanFail = FALSE
  CrashInReclaim = FALSE
  GapEventsCanBeLost = FALSE
INVARIANTS
  TypeOK
  LossIsTold
  BatchIsRight
PROPERTIES
  ImplementsLog
