SPECIFICATION Spec
CONSTANTS
  Sizes <- SomeSizes
  MaxFrameSize = 20
  Bindings <- SomeBindings
  Dst <- Image
  Block = 2
  Padding = 1
  MinRegion = 2
  Unit = 2
  Scenes <- SomeScenes
  Sightings <- SomeSightings
INVARIANTS
  AccessesInside
  EventsInRegion
