CONSTANTS
  t1 = t1
  t2 = t2
  Threads = {t1, t2}
  Keys = {1, 2, 3, 4}
  Few = {1, 2, 3}
  Calls = 2
  DeleteCalls = 6
  NULL = NULL
  Nil = Nil
  Workloads <- SafeWorkloads
SPECIFICATION FairSpec
INVARIANTS
  SearchTree
  AddsKept
  FoundIsTrue
  NoCrash
PROPERTY EveryCallEnds
CHECK_DEADLOCK FALSE
