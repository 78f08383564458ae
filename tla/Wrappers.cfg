SPECIFICATION Spec
CONSTANTS
  v1 = v1
  v2 = v2
  f1 = f1
  f2 = f2
  h1 = h1
  h2 = h2
  h3 = h3
  h4 = h4
  Nil = Nil
  LuaValues <- MCLuaValues
  Functions <- MCFunctions
  Handles <- MCHandles
  MaxRef = 6
SYMMETRY Symmetry
INVARIANTS
  HandleReadsItsValue
  OneWrapperPerValue
  TablesAnchoredByWrappers
