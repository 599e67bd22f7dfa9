SPECIFICATION ServedSpec
CONSTANTS
  Addresses = {1}
  LeaseInfos <- OneLease
  kInitialTimeout = 1
  kMaxTimeout = 4
  kTimeoutSpan = 1
  U32 = 64
PROPERTIES StartsOver
