SPECIFICATION FairSpec
CONSTANTS
  Streams = {s1}
  Binders = {b1, b2}
  NULL = NULL
  Routes = {0, 2}
  Frames = 2
  Buffer = 2
  U32 = 4
  MaxTaken = 5
  MaxHandles = 2
INVARIANTS TypeOK WritesToOpenPcm PositionWithinTaken
PROPERTIES HandleLostOnlyAtClose DeviceLockReleased
CHECK_DEADLOCK FALSE
