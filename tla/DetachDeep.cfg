SPECIFICATION Spec
CONSTANTS
  a = a
  b = b
  c = c
  n1 = n1
  s1 = s1
  s2 = s2
  sp = sp
  sl = sl
  u1 = u1
  u2 = u2
  o = o
  bottom = bottom
  Nil = Nil
  Numbers = {n1}
  Strings = {s1, s2, sp, sl}
  Others = {o}
  Name <- MCName
  MapName = "[object Map]"
  ProtoName = "__proto__"
  LengthName = "length"
  Index <- MCIndex
  Objects = {o}
  AsLength <- MCAsLength
  Detected = Detected
  LuaTables <- DeepTables
  LuaScalars <- MCScalars
  JsValue <- MCJsValue
  Graphs <- DeepGraphs
  DictTypes <- MCDictTypes
  Below <- DeepBelow
CHECK_DEADLOCK FALSE
INVARIANTS
  StackStaysInBounds
