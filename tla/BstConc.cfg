CONSTANTS
  Threads = {t1, t2}
  Keys = {1, 2, 3}
  Values = {a, b}
  Cells = {0, 1, 2, 3, 4, 5, 6}
  Nodes = {11, 12, 13}
  Root = 0
  NULL = NULL
  MaxOps = 3
  Candidates <- Lowest
SPECIFICATION BothSpec
INVARIANTS
  TypeOK
  NoUseAfterFree
  OneTree
  LocksMatchSteps
  SameTree
PROPERTIES
  Linearizable
  EverythingFreed
