SPECIFICATION Spec
CHECK_DEADLOCK FALSE
CONSTANTS
  NumStreams = 2
  MaxProcesses = 1
INVARIANTS
  StartDefined
