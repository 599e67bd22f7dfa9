SPECIFICATION FairSpec
CONSTANTS
  Addresses = {1, 2}
  LeaseInfos <- Leases
  kInitialTimeout = 1
  kMaxTimeout = 4
  kTimeoutSpan = 1
  U32 = 64
INVARIANTS TypeOK ConfiguredAsRequested BoundWithinLease OverrunBounded
PROPERTIES GivesUp GetsLease
