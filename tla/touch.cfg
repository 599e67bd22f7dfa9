SPECIFICATION Spec
CONSTANTS
  Compositors <- SomeCompositors
  MaxEvents = 3
  MaxSeatChanges = 2
  Ids = {0, 1}
  Positions = {1, 2}
  PipeSize = 2
  MaxTouches = 3
  MaxRestarts = 1
INVARIANTS TypeOK ShownIsTouched UsedOnceAnnounced OneTouch BufferAfterConfigure
PROPERTIES LiftSeen
CHECK_DEADLOCK FALSE
