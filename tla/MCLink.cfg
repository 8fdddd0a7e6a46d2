SPECIFICATION FairSpec
CONSTANTS
  unset = unset
  none = none
  torn = torn
  other = other
  mqtt = mqtt
  Tags = {mqtt}
  LevelValues = {2, 3, 4}
  Unset = unset
  Capture = 2
  CodeLevels <- NoCodeLevels
  Configs <- ThreeConfigs
  NoConfig = none
  Torn = torn
  Other = other
  MaxNow = 1
  Firmwares <- ThreeFirmwares
  MaxRetries = 3
  MaxFailed = 1
  MaxFaults = 1
  AppSinks = {"console"}
  AppWaits = TRUE
  Info = 2
  AppLevel = 4
  MessageRoom = 1
  MaxCuts = 1
  MaxSent = 2
INVARIANTS
  TypeOK
  SessionIsComplete
  RegistersAsConfigured
  LevelsAreAsAsked
PROPERTIES
  ConfigArrives
CHECK_DEADLOCK FALSE
