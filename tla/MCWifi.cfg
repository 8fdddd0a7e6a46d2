SPECIFICATION FairSpec
CONSTANTS
  home = home
  typo = typo
  cafe = cafe
  Networks = {home}
  Names = {home, typo}
  NoNetwork = NoNetwork
  NoFile = NoFile
  Damaged = Damaged
  CompiledIn = NoNetwork
  MaxMoves = 1
  MaxEvents = 2
  ApLeaves = FALSE
  ConnectCanFail = FALSE
  FlashCanFail = TRUE
  MaxCommands = 1
  MaxBoots = 2
INVARIANTS
  TypeOK
  NeverStranded
  AttemptIsHonest
  NothingTypedBlind
PROPERTIES
  SavedIsMeant
  ComesBack
CHECK_DEADLOCK FALSE
