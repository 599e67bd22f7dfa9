SPECIFICATION FairSpec
CONSTANTS
  b1 = b1
  b2 = b2
  b3 = b3
  Buffers = {b1, b2}
  NoHandle = NoHandle
  NoBuffer = NoBuffer
  NUM_BUFFERS = 2
  Contents <- SimpleContents
  InOrderReleases = FALSE
  Disconnects = FALSE
  MaxPoint = 4
INVARIANTS
  OneCommitPerBuffer
  QuiescentSignalled
PROPERTY
  FramesReleased
