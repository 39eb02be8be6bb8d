CONSTANTS
  FANOUT = 2
  NULL = NULL
  Unset = Unset
  Keys = {1, 2, 3, 4, 5, 6}
  Records = {r1}
  Cursors = {c1}
  MAX_TREE_DEPTH = 4
  End = End
  Lost = Lost
  Closed = Closed
SPECIFICATION Spec
INVARIANT PreviousIsAdjacent
CHECK_DEADLOCK FALSE
