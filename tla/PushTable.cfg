SPECIFICATION Spec
CONSTANTS
  a = a
  b = b
  c = c
  h1 = h1
  h2 = h2
  v1 = v1
  v2 = v2
  t1 = t1
  t2 = t2
  t3 = t3
  Nil = Nil
  Scalar = Scalar
  Bad = Bad
  Objects <- MCObjects
  Handles <- OneHandle
  Tables <- MCTables
  LuaValues <- MCLuaValues
  Graphs <- MCGraphs
  MaxRef = 6
SYMMETRY Symmetry
INVARIANTS
  PushReleasesItsRefs
  PushedImageIsIsomorphic
PROPERTIES
  PushMakesProgress
