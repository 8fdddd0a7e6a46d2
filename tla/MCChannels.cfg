SPECIFICATION FairSpec
CONSTANTS
  pump = pump
  Tasks = {pump}
  NoTask = NoTask
  Sent <- AllButOne
  MessageRoom = 1
  ProgressRoom = 1
  InboxRoom = 1
  StrayHandle = FALSE
  MaxStimuli = 4
  Mtus = {23, 185}
  DefaultMtu = 23
  ChunksAt <- TwoOrThree
  MaxChunks = 2
  SecurityEnabled = TRUE
  ConnectCanFail = TRUE
  TaskCanFail = FALSE
INVARIANTS
  TypeOK
PROPERTIES
  EverythingIsServed
  SchemaArrives
CHECK_DEADLOCK FALSE
