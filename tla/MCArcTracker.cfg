SPECIFICATION Spec
CHECK_DEADLOCK FALSE
CONSTANTS
  Boxes <- RowOfBoxes
  Iou <- Overlap
  Detections <- StrongOrWeak
  PtsSteps <- Restarts
  NmsThresh = 450
  IouMatch = 300
  IouAssociate = 500
  MaxGap = 2
  MaxTracks = 2
  Thresholds <- SmallThresholds
  MaxRaw = 2
  MaxFrames = 3
INVARIANTS
  TypeOK
  IdsUnique
  RecentlySeen
  EventsOwnTrack
  NmsAgrees
PROPERTIES
  SeverityFalls
  OneTrackEach
