SPECIFICATION FairSpec
CONSTANTS
  f1 = f1
  f2 = f2
  Frames = {f1, f2}
  NoFrame = NoFrame
  Capacity = 2
  MaxBatch = 3
  MaxWrites = 5
INVARIANTS
  SlotExclusive
  NeverContended
PROPERTIES
  ImplementsFifo
  EveryFrameDelivered
