SPECIFICATION FairSpec
CONSTANTS
  t1 = t1
  t2 = t2
  NoTask = NoTask
  Tasks <- MCTasks
  MaxYields = 2
  MaxResults = 2
  MaxSync = 1
INVARIANTS
  ThreadIndexNamesThread
  ActiveThreadIsNotFreed
  NoThreadLeftBehind
  ResolvesToItsFirstResult
PROPERTIES
  CallbackOutcomeReachesLua
  EveryRunEnds
CHECK_DEADLOCK FALSE
