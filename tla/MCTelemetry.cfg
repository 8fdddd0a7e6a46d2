SPECIFICATION TelemetrySpec
CONSTANTS
  Streams = {"Events", "Logs", "Data"}
  AnswerPasses = 2
  TimeoutPasses = 3
  Uids = {"temperature"}
  Policies <- ThreePolicies
  MaxCount = 2
  MaxAge = 2
INVARIANTS
  ReadingsAreKept
PROPERTIES
  EveryStreamGetsATurn
  ReadingsAreOffered
