CONSTANTS
  a = a
  b = b
  e = e
  incident = incident
  Lines <- TwoLines
  MountLines <- OneError
  ErrorLines <- OneError
  Events <- OneEvent
  Incident = incident
  ConsoleWants <- Everything
  FlashWants <- Everything
  Capacity = 2
  RtcCapacity = 2
  Torn = Torn
  NoLine = NoLine
  NoReport = NoReport
  TagRoom = 3
  MessageRoom = 5
  Symbols <- TheSymbols
  Parts <- SomeParts
  RawLines <- SomeLines
  Messages <- ShortMessages
  SecretLists <- OneOrTwo
  MaxSaid = 4
  MaxResets = 1
SPECIFICATION FairSpec
INVARIANTS
  TypeOK
  RunsAreExact
  EvidenceIsTold
  LineIsReadTheSame
PROPERTIES
  ImplementsBlackBox
  NothingIsHeldBack
