SPECIFICATION FairSpec
CONSTANTS
  VisCapacity = 2
  UvCapacity = 2
  MaxPairs = 3
  Slack = 1
INVARIANTS
  UvNeverStale
  AnalysedOnce
  TornOnlyByReset
PROPERTIES
  QuietPairAnalysed
