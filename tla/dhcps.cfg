SPECIFICATION Spec
CONSTANTS
  Interfaces = {0, 1, 2, 9}
  Macs = {m1, m2}
  Ranges <- SomeRanges
  Asked = {0, 2, 3, 4, 5, 6}
  mExcludeInterface = 9
  U32 = 16
  ByteSize = 8
INVARIANTS TypeOK UniqueLeases LeasesInRange AckAnswersRequest RefusedForAReason
PROPERTIES ImplementsAddressPool
