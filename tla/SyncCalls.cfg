SPECIFICATION CallsSpec
CONSTANTS
  t1 = t1
  t2 = t2
  NoTask = NoTask
  Tasks <- MCTasks
  MaxYields = 1
  MaxResults = 2
  MaxSync = 1
INVARIANTS
  ThreadIndexNamesThread
CHECK_DEADLOCK FALSE
