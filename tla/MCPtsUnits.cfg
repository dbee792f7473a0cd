SPECIFICATION Spec
CONSTANTS
  Ticks <- SomeTicks
  VisPts <- StampedTimes
  UvPts <- StampedTimes
  NsPerTick = 3
  ToleranceNs = 2
  MaxBufferSize = 2
  HalfRange = 64
  MaxFrames = 2
INVARIANTS
  PairsWithinTolerance
