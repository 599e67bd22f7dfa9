SPECIFICATION Spec
CONSTANTS
  b1 = b1
  b2 = b2
  b3 = b3
  Buffers = {b1, b2, b3}
  NoHandle = NoHandle
  NoBuffer = NoBuffer
  NUM_BUFFERS = 2
  Contents <- MixedContents
  InOrderReleases = TRUE
  Disconnects = TRUE
  MaxPoint = 4
CHECK_DEADLOCK FALSE
INVARIANTS
  TypeOK
  ReleaseFenceHonest
  NewContentNotBusy
  AcquireFences
PROPERTY
  ImplementsReleaseFences
