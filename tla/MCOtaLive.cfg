SPECIFICATION FairSpec
CONSTANTS
  v0 = v0
  v1 = v1
  v2 = v2
  r1 = r1
  r2 = r2
  Versions = {v0, v1, v2}
  Requests = {r1, r2}
  Published <- TwoReleases
  FactoryVersion = v0
  NoManifest = NoManifest
  Unchanged = Unchanged
  NoImage = NoImage
  MaxAttempts = 2
  MaxBad = 1
  StableAt = 1
  DeadlineAt = 2
  MaxUptime = 3
  FactoryListed = FALSE
  NvsCanFail = FALSE
  CrashBeforeRecord = FALSE
PROPERTIES
  ImplementsTrial
  UpdatesEnd
