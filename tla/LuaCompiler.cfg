SPECIFICATION Spec
CONSTANTS
  MAXINDEXRK = 2
  MAXARG_C = 2
  MAXSTACK = 16
  LFIELDS_PER_FLUSH = 2
  LUAI_MAXVARS = 20
  LUAI_MAXUPVALUES = 10
  LUAI_MAXCCALLS = 40
  LUA_MINSTACK = 4
  BASIC_CI_SIZE = 2
  LUAI_MAXCALLS = 20
  MAXTAGLOOP = 3
  HOOK_COUNT = 3
  TextMeans <- MCMeaning
  Contents <- MCImage
  Reloaded <- MCReloaded
  Cut <- MCCut
  Chunk <- MCChunk
  CFunction <- LuaFunction
  lua_str2number <- MCNumber
  CResult <- LuaResult
  StringMetatable = 0
  Globals <- MCGlobals
  Libraries <- MCLibraries
  Scripts <- MCScripts
CHECK_DEADLOCK FALSE
INVARIANTS
  AssertionsHold
  CompiledMeansSource
  UndumpRestoresChunk
  TruncatedChunkIsRefused
