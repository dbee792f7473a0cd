SPECIFICATION Spec
CONSTANTS
  VisPts <- NearVis
  UvPts <- NearUv
  ToleranceNs = 1
  MaxBufferSize = 2
  HalfRange = 64
  MaxFrames = 4
INVARIANTS
  NoMatchLeft
  EmittedOnce
  OrderPreserved
PROPERTIES
  LeftoversEvicted
