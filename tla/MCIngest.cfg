SPECIFICATION IngestFairSpec
CHECK_DEADLOCK FALSE
CONSTANTS
  Stamps <- SomeStamps
  VisPts <- SomeTimes
  UvPts <- SomeTimes
  ToleranceNs = 1
  MaxBufferSize = 2
  HalfRange = 8
  MaxFrames = 3
  MaxSessions = 2
INVARIANTS
  SessionsApart
  EmittedClose
  ScanAgrees
PROPERTIES
  ImplementsSync
  CancelEnds
