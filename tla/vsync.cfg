SPECIFICATION Spec
CONSTANTS
  Period = 3
  Second = 6
  U32 = 8
  U64 = 64
  MaxTime = 10
CHECK_DEADLOCK FALSE
INVARIANTS
  TypeOK
  SleepInPeriod
  AtMostOneLateCall
PROPERTIES
  SleepsToNextVsync
