SPECIFICATION Spec
CONSTANTS
  s1 = s1
  s2 = s2
  o1 = o1
  o2 = o2
  Nil = Nil
  Numbers <- MCNumbers
  Strings = {s1, s2}
  Objects = {o1, o2}
  Hash <- MCHash
  Address <- MCAddress
  Values = {a}
  Programs <- MCPrograms
  Sizes <- MCSizes
  Lists = {2, 5}
  MAXBITS = 3
  MAX_INT = 8
  Failures = {"array"}
CHECK_DEADLOCK FALSE
INVARIANTS
  GetReturnsLastSet
  MainInvariant
  TraversalVisitsAll
  BoundaryIsBorder
  RehashMakesRoom
PROPERTY
  ArrayIsHalfFull
