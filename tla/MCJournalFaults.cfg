SPECIFICATION Spec
CONSTANTS
  Stream = "Data"
  SegmentRotate = 2
  MaxSegments = 2
  BatchLimit = 3
  Retention = 1
  MaxSeq = 4
  MaxUptime = 2
  WritesCanFail = FALSE
  IndexCanFail = TRUE
  CrashInReclaim = TRUE
  GapEventsCanBeLost = TRUE
INVARIANTS
  PositionIsSeq
