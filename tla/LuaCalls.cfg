SPECIFICATION Spec
CONSTANTS
  MAXINDEXRK = 255
  MAXARG_C = 511
  MAXSTACK = 250
  LFIELDS_PER_FLUSH = 50
  LUAI_MAXVARS = 200
  LUAI_MAXUPVALUES = 60
  LUAI_MAXCCALLS = 14
  LUA_MINSTACK = 20
  BASIC_CI_SIZE = 2
  LUAI_MAXCALLS = 40
  MAXTAGLOOP = 5
  LUA_MAXCAPTURES = 3
  HOOK_COUNT = 5
  Chunk <- MCChunk
  CFunction <- MCFunction
  lua_str2number <- MCNumber
  CResult <- MCResult
  StringMetatable = 3
  Globals <- MCGlobals
  Libraries <- MCLibraries
  Scripts <- MCScripts
CHECK_DEADLOCK FALSE
INVARIANTS
  OutcomesAsExpected
  CCallsCountTheCStack
  ExecuteRunsItsCalls
  OpenUpvaluesAreLive
  NormalCoroutinesWait
  TimeoutReachesItsCoroutines
