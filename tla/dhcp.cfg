SPECIFICATION Spec
CONSTANTS
  c1 = c1
  c2 = c2
  m1 = m1
  m2 = m2
  Clients = {c1, c2}
  Servers = {s1, s2}
  Links = {1, 2}
  Macs = {m1, m2}
  RangeStart = 2
  RangeEnd = 3
  U32 = 65536
  Settings <- SomeSettings
SYMMETRY Symmetry
INVARIANTS TypeOK UniqueUse UsedIsLeased ConfiguredAsRequested RefusedByAnother
CHECK_DEADLOCK FALSE
