SPECIFICATION FairSpec
CONSTANTS
  o1 = o1
  o2 = o2
  p1 = p1
  u1 = u1
  u2 = u2
  u3 = u3
  NoObject = NoObject
  Objects <- MCObjects
  Primitives <- MCPrimitives
  Userdata <- MCUserdata
  MaxIndex = 4
  MaxLost = 1
INVARIANTS
  HolderReadsItsObject
PROPERTIES
  OnlyLastHolderReleases
  ImplementsPins
  CloseReleasesAll
CHECK_DEADLOCK FALSE
