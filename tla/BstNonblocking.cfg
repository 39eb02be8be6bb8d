CONSTANTS
  Threads = {t1, t2}
  Keys = {1, 2, 3}
  Values = {a, b}
  Nodes = {11, 12, 13, 14}
  Root = Root
  NULL = NULL
  MaxOps = 2
  Candidates <- Lowest
SPECIFICATION FairSpec
INVARIANTS
  TypeOK
  NoUseAfterFree
  NoLeak
PROPERTIES
  StaysLinked
  Linearizable
  EverythingFreed
