SPECIFICATION Spec
CHECK_DEADLOCK FALSE
CONSTANTS
  NumStreams = 1
  MaxProcesses = 3
INVARIANTS
  UseAfterFreeOnlyEarly
  Connected
  OwnFramesOnly
  SegmentsRemoved
