CONSTANTS
  FANOUT = 2
  NULL = NULL
  Unset = Unset
  Keys = {1, 2, 3, 4, 5, 6, 7}
  Few = {1, 2, 3, 4, 5}
  Records = {r1}
  c1 = c1
  Cursors = {c1, c2}
  MAX_TREE_DEPTH = 4
  End = End
  Lost = Lost
  Closed = Closed
SPECIFICATION BothSpec
INVARIANTS
  CopiesAgree
  PreviousIsAdjacent
PROPERTY Implements
CHECK_DEADLOCK FALSE
